---- MODULE Spec2Model ----
(***************************************************************************)
(* The Dia-1.6B RunPod serverless deployment:                              *)
(*  - the job submission / poll clients, DiaTTSClient.generate_speech      *)
(*    (inference/client/inference.py) and DiaStreamingClient.stream_speech *)
(*    with its audio player thread (inference/client/streaming.py);        *)
(*  - the construction of a client from arguments and environment          *)
(*    (inference/config/api_config.py);                                    *)
(*  - the serverless handler with its global model and cache directories   *)
(*    (serverless/handler.py);                                             *)
(*  - the inference CLI (inference/inference.py) and the .env file the     *)
(*    management CLI rewrites (main.py).                                   *)
(*                                                                         *)
(* Python dicts are functions with a string domain, so `"k" in d` is       *)
(* "k" \in DOMAIN d.  Byte strings are sequences over 0..255, base64 text  *)
(* is a sequence of sextet values 0..63 with Pad standing for "=".         *)
(***************************************************************************)
EXTENDS Integers, Sequences, FiniteSets, TLC

VARIABLES
    pc,               \* position of the calling thread inside the client method
    client,           \* "tts" (DiaTTSClient) or "stream" (DiaStreamingClient)
    text, seed, force_refresh, audio_prompt, save_path, polling_interval, timeout,
    payload,          \* the JSON body built for POST /run
    response,         \* the body of the POST /run response, {} before it arrives
    job_id,           \* result.get("id"), "" while there is none
    start_time,       \* time.time() taken when polling starts
    now,              \* the wall clock
    log,              \* HTTP requests issued and exceptions caught, in order
    status_data,      \* the last status response, <<>> before the first one
    result,           \* the returned (success, result) pair, <<>> before return
    fs,               \* the file system: path -> bytes, for the files that exist
    stop_event,       \* DiaStreamingClient.stop_event
    audio_queue,      \* chunks waiting in DiaStreamingClient.audio_queue
    unfinished_tasks, \* Queue.unfinished_tasks of audio_queue
    player,           \* position of the audio player thread
    complete_audio,   \* stream_speech's complete_audio, <<>> while None
    stale,            \* player threads of earlier stream_speech calls still running, by position
    ENDPOINT_ID,      \* config.api_config.ENDPOINT_ID, "" when not set
    RUNPOD_API_KEY,   \* config.api_config.RUNPOD_API_KEY, "" when not set
    init_args,        \* class and arguments of the client construction, <<>> before it
    ctor,             \* the construction: "new", "constructed", or the ValueError raised
    self,             \* the constructed client object, <<>> while there is none
    sent,             \* the requests the constructed client has sent: url and Authorization
    model,            \* handler.py's global model: 0 for None, else the instance loaded
    loads,            \* number of instances Dia.from_pretrained has returned so far
    environ,          \* os.environ of the container: the three cache variables, "" when unset
    volume,           \* the network volume directory that can hold a cache, "" when none
    hpc,              \* position of the handler inside one invocation
    input_data,       \* event["input"] of the invocation
    h_result,         \* what the handler returned, <<>> before the return
    trace,            \* loader and generation steps of the invocation, in order
    generate_calls,   \* arguments of the model.generate calls of the invocation
    invocations,      \* number of handler invocations the container has served
    model_before,     \* the global model when the invocation started
    refresh_requested,\* some invocation so far asked for a refresh of the model
    argv,             \* the parsed arguments of the inference CLI, "" for a flag not given
    cli,              \* position of the inference CLI: main, one of its commands, or its end
    exit_status,      \* the exit status of the CLI process, {} while it runs
    stdout,           \* the last message the CLI printed, "" before the first one
    job,              \* the job the CLI submitted and what the provider makes of it, <<>> if none
    env_file,         \* the text of the .env file beside main.py, {} when there is no file
    env_before,       \* env_file before the last deploy or delete
    env_op            \* the last deploy or delete: its kind, endpoint id and exit status

argVars == <<client, text, seed, force_refresh, audio_prompt, save_path,
             polling_interval, timeout>>
streamVars == <<stop_event, audio_queue, unfinished_tasks, player, complete_audio, stale>>
clientVars == <<pc, argVars, payload, response, job_id, start_time, now, log, status_data,
                result, fs, streamVars>>
configVars == <<ENDPOINT_ID, RUNPOD_API_KEY, init_args, ctor, self, sent>>
handlerVars == <<model, loads, environ, volume, hpc, input_data, h_result, trace,
                 generate_calls, invocations, model_before, refresh_requested>>
cliVars == <<argv, cli, exit_status, stdout, job>>
envVars == <<env_file, env_before, env_op>>
toolVars == <<cliVars, envVars>>
vars == <<clientVars, configVars, handlerVars, toolVars>>

----------------------------------------------------------------------------
(* Bounds of the model *)
MaxLen == 1          \* longest byte string held by a file
MaxTimeout == 2      \* largest timeout argument, in clock ticks
MaxInterval == 2     \* largest polling_interval argument, in clock ticks
MaxLatency == 1      \* longest time a single HTTP request takes
MaxChunks == 2       \* most chunks soundfile yields for one audio payload
MaxPrompt == 3       \* longest reference audio a job input carries
MaxInvocations == 3  \* invocations one container serves

ByteVals == {0, 255}
Pad == 64

RECURSIVE SeqsUpTo(_, _)
SeqsUpTo(S, n) ==
    IF n = 0 THEN {<<>>}
    ELSE LET shorter == SeqsUpTo(S, n - 1)
         IN  shorter \cup {Append(s, x) : s \in {t \in shorter : Len(t) = n - 1}, x \in S}

ByteStrings == SeqsUpTo(ByteVals, MaxLen)

----------------------------------------------------------------------------
(* base64, as the standard library computes it *)

Sextets(b1, b2, b3) ==
    LET n == b1 * 65536 + b2 * 256 + b3
    IN  <<n \div 262144, (n \div 4096) % 64, (n \div 64) % 64, n % 64>>

RECURSIVE b64encode(_)
b64encode(s) ==
    IF Len(s) = 0 THEN <<>>
    ELSE IF Len(s) = 1
         THEN LET q == Sextets(s[1], 0, 0) IN <<q[1], q[2], Pad, Pad>>
    ELSE IF Len(s) = 2
         THEN LET q == Sextets(s[1], s[2], 0) IN <<q[1], q[2], q[3], Pad>>
    ELSE Sextets(s[1], s[2], s[3]) \o b64encode(SubSeq(s, 4, Len(s)))

(* binascii.a2b_base64 in its default, non-strict mode: a pad character ends
   the input once the quad is complete, and input that ends inside a quad is
   an error (binascii.Error). The result is [ok |-> TRUE, bytes |-> ...], or
   [ok |-> FALSE, bytes |-> <<>>] when binascii.Error is raised. *)
RECURSIVE a2b_base64(_, _, _, _, _, _)
a2b_base64(s, i, quad_pos, leftchar, pads, out) ==
    IF i > Len(s)
    THEN [ok |-> quad_pos = 0, bytes |-> IF quad_pos = 0 THEN out ELSE <<>>]
    ELSE IF s[i] = Pad
    THEN IF quad_pos >= 2 /\ quad_pos + pads + 1 >= 4
         THEN [ok |-> TRUE, bytes |-> out]
         ELSE a2b_base64(s, i + 1, quad_pos, leftchar,
                         IF quad_pos >= 2 THEN pads + 1 ELSE pads, out)
    ELSE CASE quad_pos = 0 -> a2b_base64(s, i + 1, 1, s[i], 0, out)
           [] quad_pos = 1 -> a2b_base64(s, i + 1, 2, s[i] % 16, 0,
                                         Append(out, leftchar * 4 + s[i] \div 16))
           [] quad_pos = 2 -> a2b_base64(s, i + 1, 3, s[i] % 4, 0,
                                         Append(out, leftchar * 16 + s[i] \div 4))
           [] quad_pos = 3 -> a2b_base64(s, i + 1, 0, 0, 0,
                                         Append(out, leftchar * 64 + s[i]))

b64decode(s) == a2b_base64(s, 1, 0, 0, 0, <<>>)

----------------------------------------------------------------------------
(* What the environment can supply *)

Texts == {"", "[S1] Hello."}
Seeds == {42}
PromptFile == "ref.wav"      \* a reference audio file that exists
MissingFile == "missing.wav" \* a path that cannot be opened
OutFile == "output.wav"
Errors == {"OOM"}
JobIds == {"abc123"}

(* Bodies the provider can answer POST /run with: {}, {"id": ""}, {"id": j} *)
SubmitResponses == {<<>>} \cup {[id |-> j] : j \in JobIds \cup {""}}

(* Audio payloads: the encoding of a byte string, or one cut short *)
AudioPayloads ==
    {b64encode(b) : b \in ByteStrings} \cup
    {SubSeq(b64encode(b), 1, Len(b64encode(b)) - 1) : b \in ByteStrings \ {<<>>}}

(* The "output" object of a job: any of "error" and "audio" may be there *)
Outputs ==
    {<<>>} \cup {[error |-> e] : e \in Errors}
           \cup {[audio |-> a] : a \in AudioPayloads}
           \cup {[error |-> e, audio |-> a] : e \in Errors, a \in AudioPayloads}

Statuses == {"QUEUED", "IN_QUEUE", "IN_PROGRESS", "COMPLETED", "FAILED", "CANCELLED"}

(* Bodies the provider can answer GET /status/{id} with *)
StatusResponses ==
    {<<>>}
    \cup {[status |-> s] : s \in Statuses}
    \cup {[status |-> s, error |-> e] : s \in {"FAILED", "CANCELLED"}, e \in Errors}
    \cup {[status |-> "COMPLETED", output |-> o] : o \in Outputs}

----------------------------------------------------------------------------
(* Helpers of the client methods *)

(* dict.get(key, default) *)
Get(d, key, default) == IF key \in DOMAIN d THEN d[key] ELSE default

(* f"{result}" for the body of a submit response *)
Repr(r) == IF "id" \in DOMAIN r THEN "{'id': '" \o r.id \o "'}" ELSE "{}"

(* The status put into the message as it came, without .lower() *)
Lower_Missing(s) == s

(* status.lower() *)
Lower(s) ==
    CASE s = "FAILED" -> "failed"
      [] s = "CANCELLED" -> "cancelled"
      [] OTHER -> s

(* The payload of lines 66-88: seed and force_refresh are added only when
   given, audio_prompt only when a file was read (b64 is then its encoding) *)
BuildPayload(t, sd, fr, b64) ==
    [input |->
        (IF b64 = {} THEN <<>> ELSE [audio_prompt |-> CHOOSE a \in b64 : TRUE])
        @@ (IF fr THEN [force_refresh |-> TRUE] ELSE <<>>)
        @@ (IF sd = {} THEN <<>> ELSE [seed |-> CHOOSE x \in sd : TRUE])
        @@ [text |-> t, temperature |-> "1.3", top_p |-> "0.95"]]

(* The job id check written as `if job_id is None`: an empty id passes *)
HasJobId_KeyOnly(r) == "id" \in DOMAIN r

(* `if not job_id` on result.get("id") *)
HasJobId(r) == "id" \in DOMAIN r /\ r.id # ""

(* `time.time() - start_time > timeout` *)
DeadlineExceeded == now - start_time > timeout

(* The failure test written as `status == "FAILED"`: a cancelled job is
   polled like a running one *)
IsFailure_FailedOnly(status) == status = "FAILED"

(* status in ["FAILED", "CANCELLED"] *)
IsFailure(status) == status \in {"FAILED", "CANCELLED"}

Return(r) == pc' = "done" /\ result' = r

(* The except clauses: the exception is caught, the streaming client sets
   its stop flag, and the method returns a failure with the exception's
   text. lg is the log up to the statement that raised. *)
Catch(lg, prefix, e) ==
    /\ Return(<<FALSE, prefix \o e>>)
    /\ log' = Append(lg, "raise " \o e)
    /\ stop_event' = (IF client = "stream" THEN TRUE ELSE stop_event)

(* A request exception that is logged and followed by another poll *)
CatchRequest_Retry(lg, e) ==
    /\ pc' = "sleep"
    /\ log' = Append(lg, "raise " \o e)
    /\ UNCHANGED <<result, stop_event>>

(* except requests.exceptions.RequestException *)
CatchRequest(lg, e) == Catch(lg, "Request error: ", e)

(* A method without the `except Exception` clause: the exception leaves it *)
CatchOther_Propagate(lg, e) ==
    /\ pc' = "raised"
    /\ log' = Append(lg, "raise " \o e)
    /\ UNCHANGED <<result, stop_event>>

(* except Exception *)
CatchOther(lg, e) == Catch(lg, "Unexpected error: ", e)

(* open(save_path, "wb") followed by f.write(bytes): the file holds the
   bytes, or the open fails and the file is as before, or the write fails
   after the open truncated the file and only a prefix reached it *)
WriteOutcomes(bytes) ==
    {[ok |-> TRUE, data |-> {bytes}]}
    \cup {[ok |-> FALSE, data |-> {}]}
    \cup {[ok |-> FALSE, data |-> {SubSeq(bytes, 1, k)}] : k \in 0..(Len(bytes) - 1)}

Written(w, path) ==
    IF w.data = {} THEN fs ELSE [p \in DOMAIN fs \cup {path} |->
                                    IF p = path THEN CHOOSE d \in w.data : TRUE ELSE fs[p]]

(* The read of the reference audio with its error swallowed: an unreadable
   file is treated as no audio prompt *)
ReadAudioPrompt_Swallow(ap) ==
    IF ap \in DOMAIN fs THEN [ok |-> TRUE, b64 |-> {b64encode(fs[ap])}]
    ELSE [ok |-> TRUE, b64 |-> {}]

(* Lines 83-90: with a path given, the file is read and encoded, or the
   read raises; b64 holds the encoding when there is one *)
ReadAudioPrompt(ap) ==
    IF ap = "" THEN [ok |-> TRUE, b64 |-> {}]
    ELSE IF ap \in DOMAIN fs THEN [ok |-> TRUE, b64 |-> {b64encode(fs[ap])}]
    ELSE [ok |-> FALSE, b64 |-> {}]

----------------------------------------------------------------------------
(* Construction of a client: DiaTTSClient.__init__ and
   DiaStreamingClient.__init__, which are the same up to the playback fields.
   "" stands for None as well as for the empty string: `or` and `not` treat
   the two alike. *)

EndpointIds == {"ep1", "ep2"}
ApiKeys == {"key1", "key2"}
Classes == {"DiaTTSClient", "DiaStreamingClient"}

(* `a or b` *)
Or(a, b) == IF a # "" THEN a ELSE b

(* A constructor that checks the endpoint id alone *)
ConfigError_EndpointOnly(endpoint_id, api_key) ==
    IF endpoint_id = ""
    THEN {"ValueError: Endpoint ID is required. Provide it as argument or set ENDPOINT_ID env var."}
    ELSE {}

(* `if not self.endpoint_id: raise ...` then `if not self.api_key: raise ...`:
   the ValueError raised, if any *)
ConfigError(endpoint_id, api_key) ==
    IF endpoint_id = ""
    THEN {"ValueError: Endpoint ID is required. Provide it as argument or set ENDPOINT_ID env var."}
    ELSE IF api_key = ""
    THEN {"ValueError: API key is required. Provide it as argument or set RUNPOD_API_KEY env var."}
    ELSE {}

(* The fields __init__ sets once both values are there *)
NewClient(endpoint_id, api_key) ==
    [endpoint_id |-> endpoint_id,
     api_key |-> api_key,
     base_url |-> "https://api.runpod.ai/v2/" \o endpoint_id,
     headers |-> [Authorization |-> "Bearer " \o api_key]]

----------------------------------------------------------------------------
(* The parts of the system a specification does not exercise stay as they
   are at start: a client with its configuration in place and no request
   sent, a container that has served nothing and holds no model. *)
ConfigIdle ==
    /\ ENDPOINT_ID = "ep1" /\ RUNPOD_API_KEY = "key1"
    /\ init_args = [class |-> "DiaTTSClient", endpoint_id |-> "", api_key |-> ""]
    /\ ctor = "constructed"
    /\ self = NewClient("ep1", "key1")
    /\ sent = {}

HandlerIdle ==
    /\ model = 0 /\ loads = 0
    /\ environ = [HF_HOME |-> "", TRANSFORMERS_CACHE |-> "", TORCH_HOME |-> ""]
    /\ volume = ""
    /\ hpc = "idle"
    /\ input_data = <<>> /\ h_result = <<>>
    /\ trace = <<>> /\ generate_calls = <<>>
    /\ invocations = 0 /\ model_before = 0
    /\ refresh_requested = FALSE

CliIdle ==
    /\ argv = <<>> /\ cli = "none"
    /\ exit_status = {} /\ stdout = "" /\ job = <<>>

EnvIdle == env_file = {} /\ env_before = {} /\ env_op = <<>>

ClientIdle ==
    /\ pc = "idle"
    /\ client = "tts"
    /\ text = "" /\ seed = {} /\ force_refresh = FALSE /\ audio_prompt = ""
    /\ save_path = "" /\ polling_interval = 1 /\ timeout = 1
    /\ payload = <<>> /\ response = {} /\ job_id = ""
    /\ start_time = 0 /\ now = 0
    /\ log = <<>> /\ status_data = <<>> /\ result = <<>>
    /\ fs = [p \in {PromptFile} |-> <<>>]
    /\ stop_event = FALSE /\ audio_queue = 0 /\ unfinished_tasks = 0
    /\ player = "unstarted" /\ complete_audio = <<>>
    /\ stale = [loop |-> 0, got |-> 0]

(* The module-level configuration read from the environment, any of the two
   values possibly unset, and no client constructed yet *)
ConfigInit ==
    /\ ClientIdle
    /\ HandlerIdle
    /\ CliIdle /\ EnvIdle
    /\ ENDPOINT_ID \in EndpointIds \cup {""}
    /\ RUNPOD_API_KEY \in ApiKeys \cup {""}
    /\ init_args = <<>>
    /\ ctor = "new"
    /\ self = <<>>
    /\ sent = {}

(* client_class(endpoint_id=..., api_key=...) *)
Construct ==
    /\ ctor = "new"
    /\ \E cls \in Classes, endpoint_id \in EndpointIds \cup {""}, api_key \in ApiKeys \cup {""} :
        LET eid == Or(endpoint_id, ENDPOINT_ID)
            key == Or(api_key, RUNPOD_API_KEY)
            err == ConfigError(eid, key)
        IN  /\ init_args' = [class |-> cls, endpoint_id |-> endpoint_id, api_key |-> api_key]
            /\ IF err # {}
               THEN ctor' \in err /\ self' = <<>>
               ELSE ctor' = "constructed" /\ self' = NewClient(eid, key)
    /\ UNCHANGED <<ENDPOINT_ID, RUNPOD_API_KEY, sent>>
    /\ UNCHANGED <<clientVars, handlerVars, toolVars>>

(* requests.post(f"{self.base_url}/run", headers=self.headers, ...): a
   request needs the object, so it follows a construction that returned *)
SendRequest ==
    /\ ctor = "constructed"
    /\ sent' = sent \cup {[url |-> self.base_url \o "/run",
                            Authorization |-> self.headers.Authorization]}
    /\ UNCHANGED <<ENDPOINT_ID, RUNPOD_API_KEY, init_args, ctor, self>>
    /\ UNCHANGED <<clientVars, handlerVars, toolVars>>

ConfigNext == Construct \/ SendRequest

ConfigSpec == ConfigInit /\ [][ConfigNext]_vars

Init ==
    /\ pc = "idle"
    /\ client = "tts"
    /\ text = "" /\ seed = {} /\ force_refresh = FALSE /\ audio_prompt = ""
    /\ save_path = "" /\ polling_interval = 1 /\ timeout = 1
    /\ payload = <<>>
    /\ response = {}
    /\ job_id = ""
    /\ start_time = 0
    /\ now = 0
    /\ log = <<>>
    /\ status_data = <<>>
    /\ result = <<>>
    /\ fs \in {[p \in {PromptFile} |-> b] : b \in ByteStrings}
    /\ stop_event = FALSE
    /\ audio_queue = 0
    /\ unfinished_tasks = 0
    /\ player = "unstarted"
    /\ complete_audio = <<>>
    /\ stale = [loop |-> 0, got |-> 0]
    /\ ConfigIdle
    /\ HandlerIdle
    /\ CliIdle /\ EnvIdle

(* generate_speech / stream_speech up to the submit: the arguments, the clean
   streaming state (lines 109-110 of streaming.py), the payload, and the read
   of the reference audio file *)
Call ==
    /\ pc = "idle"
    /\ UNCHANGED <<configVars, handlerVars, toolVars, stale>>
    /\ \E c \in {"tts", "stream"}, t \in Texts, sd \in {{}} \cup {{x} : x \in Seeds},
          fr \in BOOLEAN, ap \in {"", PromptFile, MissingFile}, sp \in {"", OutFile},
          pi \in 1..MaxInterval, to \in 1..MaxTimeout :
        /\ c = "stream" => ~fr
        /\ client' = c /\ text' = t /\ seed' = sd /\ force_refresh' = fr
        /\ audio_prompt' = ap /\ save_path' = sp
        /\ polling_interval' = pi /\ timeout' = to
        /\ IF c = "stream"
           THEN audio_queue' = 0 /\ unfinished_tasks' = 0 /\ stop_event' = FALSE
           ELSE UNCHANGED <<audio_queue, unfinished_tasks, stop_event>>
        /\ LET read == ReadAudioPrompt(ap) IN
           /\ payload' = BuildPayload(t, sd, fr, read.b64)
           /\ IF read.ok
              THEN pc' = "submit" /\ UNCHANGED result
              ELSE Return(<<FALSE, "Error reading audio prompt file: " \o ap>>)
    /\ UNCHANGED <<response, job_id, start_time, now, log, status_data, fs, player,
                   complete_audio>>

(* requests.post(.../run), raise_for_status, response.json(), the job id
   check, and the start of polling (with the player thread when streaming).
   start_time is read after the response has arrived, so the time the POST
   takes is no part of the polling deadline; the clock starts there. *)
Submit ==
    /\ pc = "submit"
    /\ UNCHANGED <<configVars, handlerVars, toolVars, stale>>
    /\ \/ \E e \in {"ConnectionError", "HTTPError"} :
            /\ CatchRequest(Append(log, "POST /run"), e)
            /\ UNCHANGED <<response, job_id, start_time, player>>
       \/ /\ CatchOther(Append(log, "POST /run"), "AttributeError")
          /\ UNCHANGED <<response, job_id, start_time, player>>
       \/ \E r \in SubmitResponses :
            /\ response' = {r}
            /\ log' = Append(log, "POST /run")
            /\ IF HasJobId(r)
               THEN /\ job_id' = r.id
                    /\ start_time' = now
                    /\ pc' = "check"
                    /\ player' = (IF client = "stream" THEN "loop" ELSE player)
                    /\ UNCHANGED result
               ELSE /\ Return(<<FALSE, "Failed to submit job: " \o Repr(r)>>)
                    /\ UNCHANGED <<job_id, start_time, player>>
            /\ UNCHANGED stop_event
    /\ UNCHANGED <<argVars, payload, now, status_data, fs, audio_queue,
                   unfinished_tasks, complete_audio>>

(* A timeout path that asks the provider to cancel the job before returning *)
CheckDeadline_Cancel ==
    /\ pc = "check"
    /\ UNCHANGED <<configVars, handlerVars, toolVars, stale>>
    /\ IF DeadlineExceeded
       THEN /\ Return(<<FALSE, "Job timed out after " \o ToString(timeout) \o " seconds">>)
            /\ stop_event' = (IF client = "stream" THEN TRUE ELSE stop_event)
            /\ log' = Append(log, "POST /cancel/" \o job_id)
       ELSE /\ pc' = "get"
            /\ UNCHANGED <<result, stop_event, log>>
    /\ UNCHANGED <<argVars, payload, response, job_id, start_time, now, status_data, fs,
                   audio_queue, unfinished_tasks, player, complete_audio>>

(* The head of the poll loop: `if time.time() - start_time > timeout`. No
   request is made on the timeout path; the streaming client sets its stop
   flag before it returns. *)
CheckDeadline ==
    /\ pc = "check"
    /\ UNCHANGED <<configVars, handlerVars, toolVars, stale>>
    /\ IF DeadlineExceeded
       THEN /\ Return(<<FALSE, "Job timed out after " \o ToString(timeout) \o " seconds">>)
            /\ stop_event' = (IF client = "stream" THEN TRUE ELSE stop_event)
       ELSE /\ pc' = "get"
            /\ UNCHANGED <<result, stop_event>>
    /\ UNCHANGED <<argVars, payload, response, job_id, start_time, now, log, status_data, fs,
                   audio_queue, unfinished_tasks, player, complete_audio>>

(* The COMPLETED branch with the audio looked at before the error field *)
Completed_AudioFirst(output) ==
    IF Get(output, "audio", <<>>) # <<>>
    THEN [kind |-> "audio", audio |-> output.audio]
    ELSE IF "error" \in DOMAIN output
    THEN [kind |-> "fail", message |-> "Job failed: " \o output.error]
    ELSE [kind |-> "fail", message |-> "No audio data in response"]

(* The COMPLETED branch without the `if not audio_b64` check *)
Completed_NoAudioCheck(output) ==
    IF "error" \in DOMAIN output
    THEN [kind |-> "fail", message |-> "Job failed: " \o output.error]
    ELSE [kind |-> "audio", audio |-> Get(output, "audio", <<>>)]

(* status == "COMPLETED", lines 116-122 of inference.py (169-177 of
   streaming.py): the error field first, then the audio payload *)
Completed(output) ==
    IF "error" \in DOMAIN output
    THEN [kind |-> "fail", message |-> "Job failed: " \o output.error]
    ELSE IF Get(output, "audio", <<>>) = <<>>
    THEN [kind |-> "fail", message |-> "No audio data in response"]
    ELSE [kind |-> "audio", audio |-> output.audio]

(* A dispatch that waits only on the two statuses it knows and fails the
   job on any other one *)
Dispatch_KnownOnly(sd) ==
    LET status == Get(sd, "status", "")
    IN  IF status = "COMPLETED"
        THEN Completed(Get(sd, "output", <<>>))
        ELSE IF IsFailure(status)
        THEN [kind |-> "fail",
              message |-> "Job " \o Lower(status) \o ": "
                              \o Get(sd, "error", "Unknown error")]
        ELSE IF status \in {"IN_QUEUE", "IN_PROGRESS"}
        THEN [kind |-> "wait"]
        ELSE [kind |-> "fail", message |-> "Unknown status"]

(* What a status response leads to, lines 113-137 of inference.py (166-206
   of streaming.py): "fail" with a message, "audio" with the payload to
   decode, or "wait" for every other status *)
Dispatch(sd) ==
    LET status == Get(sd, "status", "")
    IN  IF status = "COMPLETED"
        THEN Completed(Get(sd, "output", <<>>))
        ELSE IF IsFailure(status)
        THEN [kind |-> "fail",
              message |-> "Job " \o Lower(status) \o ": "
                              \o Get(sd, "error", "Unknown error")]
        ELSE [kind |-> "wait"]

(* generate_speech returning the decoded bytes without writing save_path *)
TtsCompleted_NoSave(lg, audio_b64) ==
    LET dec == b64decode(audio_b64)
    IN  IF ~dec.ok
        THEN CatchOther(lg, "binascii.Error") /\ UNCHANGED fs
        ELSE Return(<<TRUE, dec.bytes>>) /\ log' = lg /\ UNCHANGED <<fs, stop_event>>

(* DiaTTSClient: decode, save when save_path is given, return the bytes *)
TtsCompleted(lg, audio_b64) ==
    LET dec == b64decode(audio_b64)
    IN  IF ~dec.ok
        THEN CatchOther(lg, "binascii.Error") /\ UNCHANGED fs
        ELSE IF save_path = ""
        THEN Return(<<TRUE, dec.bytes>>) /\ log' = lg /\ UNCHANGED <<fs, stop_event>>
        ELSE \E w \in WriteOutcomes(dec.bytes) :
                /\ fs' = Written(w, save_path)
                /\ IF w.ok
                   THEN Return(<<TRUE, dec.bytes>>) /\ log' = lg /\ UNCHANGED stop_event
                   ELSE CatchOther(lg, "OSError")

(* DiaStreamingClient: decode, keep the bytes as complete_audio, queue the
   chunks soundfile yields (none when it raises: that exception is only
   printed), leave the loop *)
StreamCompleted(lg, audio_b64) ==
    LET dec == b64decode(audio_b64)
    IN  IF ~dec.ok
        THEN CatchOther(lg, "binascii.Error")
             /\ UNCHANGED <<complete_audio, audio_queue, unfinished_tasks>>
        ELSE \E n \in 0..MaxChunks :
                /\ complete_audio' = dec.bytes
                /\ audio_queue' = audio_queue + n
                /\ unfinished_tasks' = unfinished_tasks + n
                /\ pc' = "queue_join"
                /\ log' = lg
                /\ UNCHANGED <<result, stop_event>>

(* One pass of the loop body after the deadline check: requests.get of the
   job status, json(), and the handling of the status *)
PollStatus ==
    /\ pc = "get"
    /\ UNCHANGED <<configVars, handlerVars, toolVars, stale>>
    /\ \E d \in 0..MaxLatency :
        LET lg == Append(log, "GET /status/" \o job_id) IN
        /\ now' = now + d
        /\ \/ /\ CatchRequest(lg, "ConnectionError")
              /\ UNCHANGED <<status_data, fs, audio_queue, unfinished_tasks, complete_audio>>
           \/ /\ CatchOther(lg, "AttributeError")
              /\ UNCHANGED <<status_data, fs, audio_queue, unfinished_tasks, complete_audio>>
           \/ \E sd \in StatusResponses :
                LET todo == Dispatch(sd) IN
                /\ status_data' = sd
                /\ CASE todo.kind = "fail" ->
                          /\ Return(<<FALSE, todo.message>>)
                          /\ log' = lg
                          /\ stop_event' = (IF client = "stream" THEN TRUE ELSE stop_event)
                          /\ UNCHANGED <<fs, audio_queue, unfinished_tasks, complete_audio>>
                     [] todo.kind = "audio" /\ client = "tts" ->
                          /\ TtsCompleted(lg, todo.audio)
                          /\ UNCHANGED <<audio_queue, unfinished_tasks, complete_audio>>
                     [] todo.kind = "audio" /\ client = "stream" ->
                          /\ StreamCompleted(lg, todo.audio)
                          /\ UNCHANGED fs
                     [] OTHER ->
                          /\ pc' = "sleep"
                          /\ log' = lg
                          /\ UNCHANGED <<result, stop_event, fs, audio_queue,
                                         unfinished_tasks, complete_audio>>
    /\ UNCHANGED <<argVars, payload, response, job_id, start_time, player>>

(* time.sleep(polling_interval) *)
Sleep ==
    /\ pc = "sleep"
    /\ UNCHANGED <<configVars, handlerVars, toolVars, stale>>
    /\ now' = now + polling_interval
    /\ pc' = "check"
    /\ UNCHANGED <<argVars, payload, response, job_id, start_time, log, status_data, result, fs,
                   streamVars>>

(* self.audio_queue.join() returns once every queued chunk is task_done;
   then self.stop_event.set() *)
QueueJoin ==
    /\ pc = "queue_join"
    /\ UNCHANGED <<configVars, handlerVars, toolVars, stale>>
    /\ unfinished_tasks = 0
    /\ stop_event' = TRUE
    /\ pc' = "thread_join"
    /\ UNCHANGED <<argVars, payload, response, job_id, start_time, now, log, status_data, result,
                   fs, audio_queue, unfinished_tasks, player, complete_audio>>

(* audio_thread.join() returns once the player thread has ended; then the
   save `if save_path and complete_audio` and the successful return *)
ThreadJoin ==
    /\ pc = "thread_join"
    /\ UNCHANGED <<configVars, handlerVars, toolVars, stale>>
    /\ player = "exited"
    /\ IF save_path = "" \/ complete_audio = <<>>
       THEN Return(<<TRUE, complete_audio>>) /\ UNCHANGED <<fs, log, stop_event>>
       ELSE \E w \in WriteOutcomes(complete_audio) :
                /\ fs' = Written(w, save_path)
                /\ IF w.ok
                   THEN Return(<<TRUE, complete_audio>>) /\ UNCHANGED <<log, stop_event>>
                   ELSE CatchOther(log, "OSError")
    /\ UNCHANGED <<argVars, payload, response, job_id, start_time, now, status_data,
                   audio_queue, unfinished_tasks, player, complete_audio>>

(* _audio_player_thread: audio_queue.get() of a waiting chunk *)
PlayerGet ==
    /\ player = "loop"
    /\ UNCHANGED <<configVars, handlerVars, toolVars, stale>>
    /\ audio_queue > 0
    /\ audio_queue' = audio_queue - 1
    /\ player' = "got"
    /\ UNCHANGED <<pc, argVars, payload, response, job_id, start_time, now, log, status_data,
                   result, fs, stop_event, unfinished_tasks, complete_audio>>

(* _audio_player_thread: audio_queue.task_done() for the chunk it took *)
PlayerTaskDone ==
    /\ player = "got"
    /\ UNCHANGED <<configVars, handlerVars, toolVars, stale>>
    /\ unfinished_tasks' = unfinished_tasks - 1
    /\ player' = "loop"
    /\ UNCHANGED <<pc, argVars, payload, response, job_id, start_time, now, log, status_data,
                   result, fs, stop_event, audio_queue, complete_audio>>

(* A player thread whose loop runs only while the queue holds a chunk: it
   ends on an empty queue whether the stop flag is set or not *)
PlayerExit_WhenEmpty ==
    /\ player = "loop"
    /\ UNCHANGED <<configVars, handlerVars, toolVars, stale>>
    /\ audio_queue = 0
    /\ player' = "exited"
    /\ UNCHANGED <<pc, argVars, payload, response, job_id, start_time, now, log, status_data,
                   result, fs, stop_event, audio_queue, unfinished_tasks, complete_audio>>

(* _audio_player_thread: the loop condition
   `not stop_event.is_set() or not audio_queue.empty()` is false *)
PlayerExit ==
    /\ player = "loop"
    /\ UNCHANGED <<configVars, handlerVars, toolVars, stale>>
    /\ stop_event /\ audio_queue = 0
    /\ player' = "exited"
    /\ UNCHANGED <<pc, argVars, payload, response, job_id, start_time, now, log, status_data,
                   result, fs, stop_event, audio_queue, unfinished_tasks, complete_audio>>

Next ==
    \/ Call
    \/ Submit
    \/ CheckDeadline
    \/ PollStatus
    \/ Sleep
    \/ QueueJoin
    \/ ThreadJoin
    \/ PlayerGet
    \/ PlayerTaskDone
    \/ PlayerExit

Spec == Init /\ [][Next]_vars


----------------------------------------------------------------------------
(* Successive stream_speech calls on one DiaStreamingClient. The player
   thread is a daemon thread that no failure return joins; it reads
   self.stop_event and self.audio_queue anew in every iteration, so a thread
   of an earlier call that is still running sees the flag and the queue of
   the current call. *)

MaxThreads == 2      \* most player threads alive at a time

StreamInit ==
    /\ ClientIdle
    /\ ConfigIdle
    /\ HandlerIdle
    /\ CliIdle /\ EnvIdle

(* stream_speech called on the client, for the first time or after an
   earlier call returned: lines 108-133. The queue is replaced, the stop
   flag cleared; the locals of the earlier call are gone, and its player
   thread, if it has not ended, runs on. Times are counted from the call. *)
StreamCall ==
    /\ pc \in {"idle", "done"}
    /\ stale.loop + (IF player = "loop" THEN 1 ELSE 0) < MaxThreads
    /\ \E pi \in 1..MaxInterval, to \in 1..MaxTimeout :
        /\ client' = "stream" /\ text' = "[S1] Hello." /\ seed' = {}
        /\ force_refresh' = FALSE /\ audio_prompt' = "" /\ save_path' = ""
        /\ polling_interval' = pi /\ timeout' = to
    /\ audio_queue' = 0 /\ unfinished_tasks' = 0 /\ stop_event' = FALSE
    /\ payload' = BuildPayload("[S1] Hello.", {}, FALSE, ReadAudioPrompt("").b64)
    /\ pc' = "submit"
    /\ stale' = [stale EXCEPT !.loop = @ + (IF player = "loop" THEN 1 ELSE 0)]
    /\ player' = "unstarted"
    /\ response' = {} /\ job_id' = "" /\ start_time' = 0 /\ now' = 0
    /\ log' = <<>> /\ status_data' = <<>> /\ result' = <<>> /\ complete_audio' = <<>>
    /\ UNCHANGED fs
    /\ UNCHANGED <<configVars, handlerVars, toolVars>>

(* A thread of an earlier call: audio_queue.get() on the current queue *)
StalePlayerGet ==
    /\ stale.loop > 0
    /\ audio_queue > 0
    /\ audio_queue' = audio_queue - 1
    /\ stale' = [loop |-> stale.loop - 1, got |-> stale.got + 1]
    /\ UNCHANGED <<pc, argVars, payload, response, job_id, start_time, now, log, status_data,
                   result, fs, stop_event, unfinished_tasks, player, complete_audio>>
    /\ UNCHANGED <<configVars, handlerVars, toolVars>>

(* A thread of an earlier call: audio_queue.task_done() *)
StalePlayerTaskDone ==
    /\ stale.got > 0
    /\ unfinished_tasks' = unfinished_tasks - 1
    /\ stale' = [loop |-> stale.loop + 1, got |-> stale.got - 1]
    /\ UNCHANGED <<pc, argVars, payload, response, job_id, start_time, now, log, status_data,
                   result, fs, stop_event, audio_queue, player, complete_audio>>
    /\ UNCHANGED <<configVars, handlerVars, toolVars>>

(* A thread of an earlier call finds the loop condition false *)
StalePlayerExit ==
    /\ stale.loop > 0
    /\ stop_event /\ audio_queue = 0
    /\ stale' = [stale EXCEPT !.loop = @ - 1]
    /\ UNCHANGED <<pc, argVars, payload, response, job_id, start_time, now, log, status_data,
                   result, fs, stop_event, audio_queue, unfinished_tasks, player,
                   complete_audio>>
    /\ UNCHANGED <<configVars, handlerVars, toolVars>>

StreamNext ==
    \/ StreamCall
    \/ Submit
    \/ CheckDeadline
    \/ PollStatus
    \/ Sleep
    \/ QueueJoin
    \/ ThreadJoin
    \/ PlayerGet
    \/ PlayerTaskDone
    \/ PlayerExit
    \/ StalePlayerGet
    \/ StalePlayerTaskDone
    \/ StalePlayerExit

StreamSpec == StreamInit /\ [][StreamNext]_vars

(* The threads are scheduled fairly: a join that can return returns, and a
   player thread that can take a chunk, mark it done or leave its loop
   does so (its get() waits 0.1 s at most before the condition is read
   again). Nothing is assumed of the caller or of the provider. *)
FairStreamSpec ==
    /\ StreamSpec
    /\ WF_vars(QueueJoin) /\ WF_vars(ThreadJoin)
    /\ WF_vars(PlayerGet) /\ WF_vars(PlayerTaskDone) /\ WF_vars(PlayerExit)
    /\ WF_vars(StalePlayerGet) /\ WF_vars(StalePlayerTaskDone) /\ WF_vars(StalePlayerExit)

----------------------------------------------------------------------------
(* The serverless handler (serverless/handler.py): the global model, the
   loader, and handler(event) over the invocations one container serves. *)

PromptBytes == SeqsUpTo(ByteVals, MaxPrompt)
Volumes == {"", "/runpod-volume"}
Commands == {"set_cache_dir", "debug_volumes", "refresh_model"}
NoCacheDir == "/tmp/hf_temp_nocache"
GenerationErrors == {"manual_seed failed", "CUDA out of memory",
                     "Failed to find C compiler", "Error opening buffer"}

(* Job inputs as the client builds them: the payload of generate_speech for
   every text, seed, force_refresh and reference audio *)
ClientInputs ==
    {BuildPayload(t, sd, fr, p).input :
        t \in Texts, sd \in {{}} \cup {{x} : x \in Seeds}, fr \in BOOLEAN,
        p \in {{}} \cup {{b64encode(b)} : b \in PromptBytes}}

(* The admin commands, with and without a text beside them *)
CommandInputs ==
    {[command |-> c] @@ extra :
        c \in Commands, extra \in {<<>>, [text |-> "[S1] Hello."],
                                   [cache_dir |-> ""], [cache_dir |-> "/cache"]}}

(* Inputs no client of this repository builds: no text at all, an unknown
   command, an audio prompt that is not base64 text *)
OtherInputs ==
    {<<>>, [command |-> "status"], [command |-> "status", text |-> "[S1] Hello."],
     [text |-> "[S1] Hello.", audio_prompt |-> <<0>>]}

HandlerInputs == ClientInputs \cup CommandInputs \cup OtherInputs

(* A command that is looked at only when the input has no text *)
Command_IfNoText(inp) == IF "text" \in DOMAIN inp THEN "" ELSE Get(inp, "command", "")

(* input_data.get("command") *)
Command(inp) == Get(inp, "command", "")

(* The text test written as `if text is None` *)
NoText_MissingOnly(inp) == "text" \notin DOMAIN inp

(* `if not text` on input_data.get("text", "") *)
NoText(inp) == Get(inp, "text", "") = ""

(* input_data.get("force_refresh", False) *)
ForceRefresh(inp) == Get(inp, "force_refresh", FALSE)

(* Lines 551-556: audio_prompt_bytes stays None ({}) unless the input has a
   non-empty audio_prompt, which is base64-decoded; ok is FALSE when the
   decoding raises *)
DecodePrompt(inp) ==
    LET a == Get(inp, "audio_prompt", <<>>)
    IN  IF a = <<>> THEN [ok |-> TRUE, bytes |-> {}]
        ELSE LET dec == b64decode(a)
             IN  IF dec.ok THEN [ok |-> TRUE, bytes |-> {dec.bytes}]
                 ELSE [ok |-> FALSE, bytes |-> {}]

(* check_and_configure_cache_dirs: with a usable network volume the three
   cache variables point into it, otherwise the environment stays as it is *)
check_and_configure_cache_dirs(env, vol) ==
    IF vol = "" THEN env
    ELSE [HF_HOME |-> vol \o "/hf_cache",
          TRANSFORMERS_CACHE |-> vol \o "/hf_cache",
          TORCH_HOME |-> vol \o "/torch_cache"]

(* A loader that returns the cached model even when a refresh is forced *)
load_model_KeepCached(m, ld, env, vol, force, ok) ==
    IF m # 0
    THEN [model |-> m, loads |-> ld, environ |-> env, raised |-> FALSE, steps |-> <<>>]
    ELSE LET env1 == check_and_configure_cache_dirs(env, vol)
             env2 == IF force THEN [env1 EXCEPT !.HF_HOME = NoCacheDir] ELSE env1
         IN  IF ok
             THEN [model |-> ld + 1, loads |-> ld + 1, environ |-> env2, raised |-> FALSE,
                   steps |-> <<"from_pretrained">>]
             ELSE [model |-> 0, loads |-> ld, environ |-> env2, raised |-> TRUE,
                   steps |-> <<"from_pretrained raises">>]

(* A loader that loads on every call, cached model or not *)
load_model_Always(m, ld, env, vol, force, ok) ==
    LET discard == IF m # 0 THEN <<"del model">> ELSE <<>>
        env1 == check_and_configure_cache_dirs(env, vol)
        env2 == IF force THEN [env1 EXCEPT !.HF_HOME = NoCacheDir] ELSE env1
    IN  IF ok
        THEN [model |-> ld + 1, loads |-> ld + 1, environ |-> env2, raised |-> FALSE,
              steps |-> discard \o <<"from_pretrained">>]
        ELSE [model |-> 0, loads |-> ld, environ |-> env2, raised |-> TRUE,
              steps |-> discard \o <<"from_pretrained raises">>]

(* A loader that puts the cached model back when a forced load fails *)
load_model_Restore(m, ld, env, vol, force, ok) ==
    IF m # 0 /\ ~force
    THEN [model |-> m, loads |-> ld, environ |-> env, raised |-> FALSE, steps |-> <<>>]
    ELSE LET discard == IF force /\ m # 0 THEN <<"del model">> ELSE <<>>
             env1 == check_and_configure_cache_dirs(env, vol)
             env2 == IF force THEN [env1 EXCEPT !.HF_HOME = NoCacheDir] ELSE env1
         IN  IF ok
             THEN [model |-> ld + 1, loads |-> ld + 1, environ |-> env2, raised |-> FALSE,
                   steps |-> discard \o <<"from_pretrained">>]
             ELSE [model |-> m, loads |-> ld, environ |-> env2, raised |-> TRUE,
                   steps |-> discard \o <<"from_pretrained raises">>]

(* load_model(force_refresh) called with the global model m, ld instances
   loaded so far and the environment env; ok tells whether
   Dia.from_pretrained returns. The global model, the instance count and the
   environment afterwards, whether the call raised, and its steps. A forced
   load drops the cached model first and points HF_HOME at a temporary
   directory; when from_pretrained raises the global model is None. *)
load_model(m, ld, env, vol, force, ok) ==
    IF m # 0 /\ ~force
    THEN [model |-> m, loads |-> ld, environ |-> env, raised |-> FALSE, steps |-> <<>>]
    ELSE LET discard == IF force /\ m # 0 THEN <<"del model">> ELSE <<>>
             env1 == check_and_configure_cache_dirs(env, vol)
             env2 == IF force THEN [env1 EXCEPT !.HF_HOME = NoCacheDir] ELSE env1
         IN  IF ok
             THEN [model |-> ld + 1, loads |-> ld + 1, environ |-> env2, raised |-> FALSE,
                   steps |-> discard \o <<"from_pretrained">>]
             ELSE [model |-> 0, loads |-> ld, environ |-> env2, raised |-> TRUE,
                   steps |-> discard \o <<"from_pretrained raises">>]

(* What the generation block can do for an input: the steps taken, the
   number of model.generate calls (two when the first one fails for want of
   a C compiler and is retried), the exception that ends it, if any, and the
   WAV bytes otherwise *)
GenerationOutcomes(inp) ==
    LET seeded == IF "seed" \in DOMAIN inp THEN <<"manual_seed">> ELSE <<>>
        generated == {<<"generate">>, <<"generate raises", "generate">>}
    IN  (IF "seed" \in DOMAIN inp
         THEN {[steps |-> <<"manual_seed raises">>, calls |-> 0,
                error |-> {"manual_seed failed"}, wav |-> <<>>]}
         ELSE {})
        \cup {[steps |-> seeded \o <<"generate raises">>, calls |-> 1,
               error |-> {"CUDA out of memory"}, wav |-> <<>>]}
        \cup {[steps |-> seeded \o <<"generate raises", "generate raises">>, calls |-> 2,
               error |-> {"Failed to find C compiler"}, wav |-> <<>>]}
        \cup {[steps |-> seeded \o g \o <<"sf.write raises">>, calls |-> Len(g),
               error |-> {"Error opening buffer"}, wav |-> <<>>] : g \in generated}
        \cup {[steps |-> seeded \o g \o <<"sf.write">>, calls |-> Len(g),
               error |-> {}, wav |-> w] : g \in generated, w \in ByteStrings \ {<<>>}}

(* A generation block without its `except Exception`: the exception leaves
   the handler *)
CatchGeneration_Reraise(e) == [hpc |-> "raised", result |-> <<>>]

(* except Exception as e: return {"error": f"Error generating speech: ..."} *)
CatchGeneration(e) ==
    [hpc |-> "returned", result |-> [error |-> "Error generating speech: " \o e]]

(* The handler returns r / an exception leaves the handler *)
HReturn(r) == hpc' = "returned" /\ h_result' = r
HRaise == hpc' = "raised" /\ h_result' = <<>>

(* A cold container: no model, the cache variables unset, a network volume
   mounted or not *)
HandlerInit ==
    /\ ClientIdle
    /\ ConfigIdle
    /\ CliIdle /\ EnvIdle
    /\ model = 0 /\ loads = 0
    /\ environ = [HF_HOME |-> "", TRANSFORMERS_CACHE |-> "", TORCH_HOME |-> ""]
    /\ volume \in Volumes
    /\ hpc = "idle"
    /\ input_data = <<>> /\ h_result = <<>>
    /\ trace = <<>> /\ generate_calls = <<>>
    /\ invocations = 0 /\ model_before = 0
    /\ refresh_requested = FALSE

(* runpod.serverless.start({"handler": handler}): the worker hands the next
   job to handler(event), whose first statement is
   input_data = event.get("input", {}) *)
Invoke ==
    /\ hpc = "idle"
    /\ invocations < MaxInvocations
    /\ \E inp \in HandlerInputs :
        /\ input_data' = inp
        /\ refresh_requested' = (\/ refresh_requested
                                 \/ Command(inp) = "refresh_model"
                                 \/ ForceRefresh(inp))
    /\ hpc' = "command"
    /\ invocations' = invocations + 1
    /\ h_result' = <<>> /\ trace' = <<>> /\ generate_calls' = <<>>
    /\ model_before' = model
    /\ UNCHANGED <<model, loads, environ, volume>>
    /\ UNCHANGED <<clientVars, configVars, toolVars>>

(* A set_cache_dir that sets HF_HOME as soon as the directory exists, before
   the write test and the subdirectories *)
SetCacheDir_SetFirst ==
    /\ hpc = "command"
    /\ Command(input_data) = "set_cache_dir"
    /\ LET cache_dir == Get(input_data, "cache_dir", "") IN
       IF cache_dir = ""
       THEN /\ HReturn([status |-> "error", message |-> "Missing cache_dir parameter"])
            /\ UNCHANGED environ
       ELSE \/ /\ HReturn([status |-> "error",
                           message |-> "Failed to create cache directory: PermissionError"])
               /\ UNCHANGED environ
            \/ /\ HReturn([status |-> "error",
                           message |-> "Failed to set up cache directories: PermissionError"])
               /\ environ' = [environ EXCEPT !.HF_HOME = cache_dir \o "/hf_cache"]
            \/ /\ environ' = [HF_HOME |-> cache_dir \o "/hf_cache",
                              TRANSFORMERS_CACHE |-> cache_dir \o "/hf_cache",
                              TORCH_HOME |-> cache_dir \o "/torch_cache"]
               /\ HReturn([status |-> "success",
                           message |-> "Cache directories set to " \o cache_dir,
                           hf_cache |-> cache_dir \o "/hf_cache",
                           torch_cache |-> cache_dir \o "/torch_cache"])
    /\ UNCHANGED <<model, loads, volume, input_data, trace, generate_calls, invocations,
                   model_before, refresh_requested>>
    /\ UNCHANGED <<clientVars, configVars, toolVars>>

(* command == "set_cache_dir", lines 412-460: every path returns a status;
   the cache variables are set once the directory took the test file and the
   two subdirectories *)
SetCacheDir ==
    /\ hpc = "command"
    /\ Command(input_data) = "set_cache_dir"
    /\ LET cache_dir == Get(input_data, "cache_dir", "") IN
       IF cache_dir = ""
       THEN /\ HReturn([status |-> "error", message |-> "Missing cache_dir parameter"])
            /\ UNCHANGED environ
       ELSE \/ /\ HReturn([status |-> "error",
                           message |-> "Failed to create cache directory: PermissionError"])
               /\ UNCHANGED environ
            \/ /\ HReturn([status |-> "error",
                           message |-> "Failed to set up cache directories: PermissionError"])
               /\ UNCHANGED environ
            \/ /\ environ' = [HF_HOME |-> cache_dir \o "/hf_cache",
                              TRANSFORMERS_CACHE |-> cache_dir \o "/hf_cache",
                              TORCH_HOME |-> cache_dir \o "/torch_cache"]
               /\ HReturn([status |-> "success",
                           message |-> "Cache directories set to " \o cache_dir,
                           hf_cache |-> cache_dir \o "/hf_cache",
                           torch_cache |-> cache_dir \o "/torch_cache"])
    /\ UNCHANGED <<model, loads, volume, input_data, trace, generate_calls, invocations,
                   model_before, refresh_requested>>
    /\ UNCHANGED <<clientVars, configVars, toolVars>>

(* command == "debug_volumes", lines 463-517: the `whoami` subprocess runs
   outside any try, the volume checks inside one *)
DebugVolumes ==
    /\ hpc = "command"
    /\ Command(input_data) = "debug_volumes"
    /\ \/ trace' = Append(trace, "whoami raises") /\ HRaise
       \/ /\ trace' = trace
          /\ HReturn([status |-> "success",
                      debug_info |-> [environment_variables |-> environ]])
    /\ UNCHANGED <<model, loads, environ, volume, input_data, generate_calls, invocations,
                   model_before, refresh_requested>>
    /\ UNCHANGED <<clientVars, configVars, toolVars>>

(* command == "refresh_model", lines 520-526: model = load_model(True), which
   is not inside a try *)
RefreshModel ==
    /\ hpc = "command"
    /\ Command(input_data) = "refresh_model"
    /\ \E ok \in BOOLEAN :
        LET l == load_model(model, loads, environ, volume, TRUE, ok) IN
        /\ model' = l.model /\ loads' = l.loads /\ environ' = l.environ
        /\ trace' = trace \o l.steps
        /\ IF l.raised
           THEN HRaise
           ELSE HReturn([status |-> "success",
                         message |-> "Model refreshed from Hugging Face Hub"])
    /\ UNCHANGED <<volume, input_data, generate_calls, invocations, model_before,
                   refresh_requested>>
    /\ UNCHANGED <<clientVars, configVars, toolVars>>

(* Lines 528-536: `if model is None: model = load_model()`, then the text
   check. The load comes first and is not inside a try. *)
LoadAndCheckText ==
    /\ hpc = "command"
    /\ Command(input_data) \notin Commands
    /\ \E ok \in BOOLEAN :
        LET l == load_model(model, loads, environ, volume, FALSE, ok) IN
        /\ model' = l.model /\ loads' = l.loads /\ environ' = l.environ
        /\ trace' = trace \o l.steps
        /\ IF l.raised
           THEN HRaise
           ELSE IF NoText(input_data)
           THEN HReturn([error |-> "No text provided for speech generation."])
           ELSE hpc' = "refresh" /\ UNCHANGED h_result
    /\ UNCHANGED <<volume, input_data, generate_calls, invocations, model_before,
                   refresh_requested>>
    /\ UNCHANGED <<clientVars, configVars, toolVars>>

(* Lines 538-556: `if force_model_refresh: model = load_model(True)`, then
   the decoding of the audio prompt *)
RefreshAndDecode ==
    /\ hpc = "refresh"
    /\ \E ok \in BOOLEAN :
        LET l == IF ForceRefresh(input_data)
                 THEN load_model(model, loads, environ, volume, TRUE, ok)
                 ELSE [model |-> model, loads |-> loads, environ |-> environ,
                       raised |-> FALSE, steps |-> <<>>]
        IN
        /\ model' = l.model /\ loads' = l.loads /\ environ' = l.environ
        /\ trace' = trace \o l.steps
        /\ IF l.raised
           THEN HRaise
           ELSE IF ~DecodePrompt(input_data).ok
           THEN HReturn([error |-> "Error decoding audio prompt: binascii.Error"])
           ELSE hpc' = "generate" /\ UNCHANGED h_result
    /\ UNCHANGED <<volume, input_data, generate_calls, invocations, model_before,
                   refresh_requested>>
    /\ UNCHANGED <<clientVars, configVars, toolVars>>

(* Lines 558-612: the seed, model.generate on the global model with the
   decoded audio prompt, the WAV and base64 encoding, all inside one try *)
Generate ==
    /\ hpc = "generate"
    /\ \E o \in GenerationOutcomes(input_data) :
        LET call == [model |-> model, text |-> input_data.text,
                     audio_prompt |-> DecodePrompt(input_data).bytes]
        IN
        /\ trace' = trace \o o.steps
        /\ generate_calls' = [i \in 1..o.calls |-> call]
        /\ IF o.error = {}
           THEN HReturn([audio |-> b64encode(o.wav), format |-> "wav",
                         sample_rate |-> 44100])
           ELSE LET c == CatchGeneration(CHOOSE e \in o.error : TRUE)
                IN  hpc' = c.hpc /\ h_result' = c.result
    /\ UNCHANGED <<model, loads, environ, volume, input_data, invocations, model_before,
                   refresh_requested>>
    /\ UNCHANGED <<clientVars, configVars, toolVars>>

(* The worker takes what the invocation returned or raised and waits for
   the next job; the locals of the call are gone, the globals stay *)
Deliver ==
    /\ hpc \in {"returned", "raised"}
    /\ hpc' = "idle"
    /\ input_data' = <<>> /\ h_result' = <<>>
    /\ trace' = <<>> /\ generate_calls' = <<>>
    /\ model_before' = model
    /\ UNCHANGED <<model, loads, environ, volume, invocations, refresh_requested>>
    /\ UNCHANGED <<clientVars, configVars, toolVars>>

HandlerNext ==
    \/ Invoke
    \/ Deliver
    \/ SetCacheDir
    \/ DebugVolumes
    \/ RefreshModel
    \/ LoadAndCheckText
    \/ RefreshAndDecode
    \/ Generate

HandlerSpec == HandlerInit /\ [][HandlerNext]_vars

----------------------------------------------------------------------------
(* Properties of the job submission / poll client *)

Requests == {log[i] : i \in 1..Len(log)}
StatusRequests == {"GET /status/" \o j : j \in JobIds \cup {""}}
Elapsed == now - start_time
TimedOut ==
    pc = "done" /\ result[1] = FALSE
    /\ result[2] = "Job timed out after " \o ToString(timeout) \o " seconds"

(* C1: when the POST /run response carries no job id (no "id" key, or an
   empty one), the call has returned (False, "Failed to submit job: <body>")
   and the POST is the only request it ever made: no status GET follows. *)
C1_NoJobIdReturnsWithoutPolling ==
    \A r \in response :
        ("id" \notin DOMAIN r \/ r.id = "") =>
            /\ pc = "done"
            /\ result[1] = FALSE
            /\ result[2] \in {"Failed to submit job: {}", "Failed to submit job: {'id': ''}"}
            /\ log = <<"POST /run">>
            /\ job_id = ""

C1_Witness ==
    /\ pc = "done"
    /\ response = {[id |-> ""]}
    /\ log = <<"POST /run">>

(* C2: once a job is submitted, generate_speech has returned by the time
   timeout + polling_interval has elapsed since polling started: while it is
   still running the elapsed time is within that bound, and so is the elapsed
   time at its return. *)
C2_ElapsedWithinTimeoutPlusInterval ==
    (client = "tts" /\ job_id # "") => Elapsed <= timeout + polling_interval

(* The last status response is COMPLETED / carries this output *)
StatusIs(st) == "status" \in DOMAIN status_data /\ status_data.status = st
Output == IF "output" \in DOMAIN status_data THEN status_data.output ELSE <<>>
HasAudio == "audio" \in DOMAIN Output /\ Output.audio # <<>>
AudioDecodes == HasAudio /\ b64decode(Output.audio).ok
Decoded == b64decode(Output.audio).bytes

(* C3, as stated: when the last poll of generate_speech is COMPLETED with a
   non-empty output.audio and no error field, the call has returned
   (True, bytes) with bytes the base64-decoding of output.audio, and with a
   save_path the file holds exactly those bytes. *)
C3_CompletedWithAudioSucceeds ==
    (client = "tts" /\ StatusIs("COMPLETED") /\ HasAudio /\ "error" \notin DOMAIN Output) =>
        /\ pc = "done"
        /\ result[1] = TRUE
        /\ result[2] = Decoded
        /\ save_path # "" => (save_path \in DOMAIN fs /\ fs[save_path] = Decoded)

(* C3, amended: the same, provided output.audio is valid base64 text and
   the write of save_path does not raise. "/w==" decodes to the byte 255. *)
C3_ValidAudioSucceeds ==
    (client = "tts" /\ StatusIs("COMPLETED") /\ AudioDecodes /\ "error" \notin DOMAIN Output
        /\ "raise OSError" \notin Requests) =>
        /\ pc = "done"
        /\ result[1] = TRUE
        /\ result[2] = Decoded
        /\ Output.audio = <<63, 48, Pad, Pad>> => result[2] = <<255>>
        /\ save_path # "" => (save_path \in DOMAIN fs /\ fs[save_path] = Decoded)
        /\ save_path = "" => OutFile \notin DOMAIN fs

C3_Witness ==
    /\ pc = "done" /\ client = "tts"
    /\ Len(log) >= 3
    /\ StatusIs("COMPLETED") /\ "error" \notin DOMAIN Output
    /\ HasAudio /\ Output.audio = <<63, 48, Pad, Pad>>
    /\ result[1] = TRUE /\ result[2] = <<255>>
    /\ save_path = OutFile /\ OutFile \in DOMAIN fs /\ fs[OutFile] = <<255>>

(* C4: when a status poll returns FAILED or CANCELLED, the call has returned
   (False, "Job failed: <error>") or (False, "Job cancelled: <error>") with
   the provider's error text ("Unknown error" when there is none); no audio
   was decoded, queued or written. FAILED with "OOM" gives "Job failed: OOM". *)
C4_FailedOrCancelledCarriesError ==
    (StatusIs("FAILED") \/ StatusIs("CANCELLED")) =>
        /\ pc = "done"
        /\ result[1] = FALSE
        /\ result[2] = (IF StatusIs("FAILED") THEN "Job failed: " ELSE "Job cancelled: ")
                         \o (IF "error" \in DOMAIN status_data THEN status_data.error
                                                              ELSE "Unknown error")
        /\ status_data = [status |-> "FAILED", error |-> "OOM"] => result[2] = "Job failed: OOM"
        /\ OutFile \notin DOMAIN fs
        /\ complete_audio = <<>> /\ audio_queue = 0 /\ unfinished_tasks = 0

C4_Witness ==
    /\ pc = "done"
    /\ status_data = [status |-> "FAILED", error |-> "OOM"]
    /\ result[1] = FALSE /\ result[2] = "Job failed: OOM"
    /\ save_path = OutFile

(* C5: when a status poll returns COMPLETED and the output has an error
   field, generate_speech and stream_speech have returned
   (False, "Job failed: <error>"), with or without audio in the output, and
   no audio was decoded, queued or saved. *)
C5_CompletedWithErrorFails ==
    (StatusIs("COMPLETED") /\ "error" \in DOMAIN Output) =>
        /\ pc = "done"
        /\ result[1] = FALSE
        /\ result[2] = "Job failed: " \o Output.error
        /\ OutFile \notin DOMAIN fs
        /\ complete_audio = <<>> /\ audio_queue = 0 /\ unfinished_tasks = 0

C5_Witness ==
    /\ pc = "done"
    /\ StatusIs("COMPLETED") /\ "error" \in DOMAIN Output
    /\ AudioDecodes /\ Decoded = <<255>>
    /\ save_path = OutFile
    /\ result[1] = FALSE /\ result[2] = "Job failed: OOM"

(* C6: when a status poll returns COMPLETED with no error field and a
   missing or empty audio payload, the call has returned
   (False, "No audio data in response"); whenever it returns success the
   payload was there and not empty. *)
C6_NoAudioFails ==
    /\ (StatusIs("COMPLETED") /\ "error" \notin DOMAIN Output /\ ~HasAudio) =>
            /\ pc = "done"
            /\ result[1] = FALSE
            /\ result[2] = "No audio data in response"
    /\ (pc = "done" /\ result[1] = TRUE) => (StatusIs("COMPLETED") /\ HasAudio)

C6_Witness ==
    /\ pc = "done"
    /\ status_data = [status |-> "COMPLETED", output |-> [audio |-> <<>>]]
    /\ result[1] = FALSE /\ result[2] = "No audio data in response"

(* C7: when the deadline is found exceeded at the head of the poll loop the
   call returns the timeout failure in that step without any request; once
   it has returned nothing more is ever sent; and no request other than the
   POST /run and the status GETs (so no cancellation) is ever in the log. *)
C7_TimeoutSendsNothing ==
    /\ [][(pc = "check" /\ pc' # "check" /\ now - start_time > timeout)
            => (TimedOut' /\ log' = log)]_vars
    /\ [][pc = "done" => log' = log]_vars
    /\ [](\A i \in 1..Len(log) :
            log[i] \in {"POST /run"} \cup StatusRequests
                \/ (i = Len(log) /\ pc = "done" /\ result[1] = FALSE))

C7_Witness ==
    /\ TimedOut
    /\ ~StatusIs("COMPLETED") /\ ~StatusIs("FAILED") /\ ~StatusIs("CANCELLED")
    /\ log[Len(log)] = "GET /status/abc123"
    /\ Len(log) >= 3

(* C8: a request exception raised by the POST or by a status GET is the last
   thing the call does: it directly follows the request that raised, the
   call has returned (False, "Request error: ..."), and no request follows. *)
C8_RequestExceptionAborts ==
    \A i \in 1..Len(log) :
        log[i] \in {"raise ConnectionError", "raise HTTPError"} =>
            /\ i = Len(log)
            /\ i > 1 /\ log[i - 1] \in {"POST /run"} \cup StatusRequests
            /\ pc = "done"
            /\ result[1] = FALSE
            /\ result[2] \in {"Request error: ConnectionError", "Request error: HTTPError"}

C8_Witness ==
    /\ pc = "done"
    /\ Len(log) >= 4
    /\ log[Len(log)] = "raise ConnectionError"
    /\ log[Len(log) - 1] = "GET /status/abc123"
    /\ result[1] = FALSE /\ result[2] = "Request error: ConnectionError"

(* C9: generate_speech called with empty text never issues POST /run. *)
C9_EmptyTextNotSubmitted ==
    (pc # "idle" /\ client = "tts" /\ text = "") => "POST /run" \notin Requests

(* C10: with an audio_prompt path that cannot be read the call has returned
   (False, "Error reading audio prompt file: ...") and no request was made;
   with one that can be read, input.audio_prompt of the payload is the
   base64 encoding of the file's bytes (the byte 255 is sent as "/w=="). *)
C10_AudioPromptReadOrFail ==
    pc # "idle" =>
        /\ (audio_prompt # "" /\ audio_prompt \notin DOMAIN fs) =>
                /\ pc = "done"
                /\ result[1] = FALSE
                /\ result[2] = "Error reading audio prompt file: " \o audio_prompt
                /\ log = <<>>
        /\ (audio_prompt # "" /\ audio_prompt \in DOMAIN fs) =>
                /\ "audio_prompt" \in DOMAIN payload.input
                /\ payload.input.audio_prompt = b64encode(fs[audio_prompt])
                /\ fs[audio_prompt] = <<255>> =>
                        payload.input.audio_prompt = <<63, 48, Pad, Pad>>
        /\ audio_prompt = "" => "audio_prompt" \notin DOMAIN payload.input

C10_Witness ==
    /\ pc = "done"
    /\ audio_prompt = MissingFile
    /\ result[1] = FALSE
    /\ result[2] = "Error reading audio prompt file: missing.wav"
    /\ log = <<>>

(* The last status response is one of the three terminal statuses *)
Terminal == StatusIs("COMPLETED") \/ StatusIs("FAILED") \/ StatusIs("CANCELLED")
NumStatusRequests == Cardinality({i \in 1..Len(log) : log[i] \in StatusRequests})

(* C11: a terminal status ends the polling. Once a status response is
   COMPLETED, FAILED or CANCELLED the caller is out of the poll loop (returned,
   or draining the player when streaming); from then on the stored response
   never changes and no further status request is logged; and the returned
   pair is read off that one response. *)
C11_TerminalStatusIsFinal ==
    /\ [](Terminal => pc \in {"done", "queue_join", "thread_join"})
    /\ [][Terminal => (status_data' = status_data
                        /\ NumStatusRequests' = NumStatusRequests)]_vars
    /\ []((Terminal /\ pc = "done") =>
            /\ log[NumStatusRequests + 1] \in StatusRequests
            /\ (StatusIs("FAILED") \/ StatusIs("CANCELLED")) =>
                    /\ result[1] = FALSE
                    /\ result[2] = (IF StatusIs("FAILED") THEN "Job failed: "
                                                          ELSE "Job cancelled: ")
                                     \o (IF "error" \in DOMAIN status_data
                                         THEN status_data.error ELSE "Unknown error")
            /\ (StatusIs("COMPLETED") /\ result[1]) => result[2] = Decoded)

C11_Witness ==
    /\ pc = "done"
    /\ status_data = [status |-> "CANCELLED", error |-> "OOM"]
    /\ log = <<"POST /run", "GET /status/abc123", "GET /status/abc123">>
    /\ result[1] = FALSE /\ result[2] = "Job cancelled: OOM"

(* Where a call can be, and the exceptions the model raises inside it *)
Positions == {"idle", "submit", "check", "get", "sleep", "queue_join", "thread_join",
              "done"}
Exceptions == {"ConnectionError", "HTTPError", "AttributeError", "binascii.Error",
               "OSError"}

(* C12: generate_speech never raises. The caller is never at a position
   outside the method's own steps; every exception raised inside it
   (transport error, malformed response, undecodable audio, failing write) is
   the last thing logged and the call has returned (False, message) with the
   exception's text; an unreadable audio prompt has returned a failure too;
   and whatever it returns is a pair of a boolean and, on True, a byte
   string, on False, a message string. *)
C12_GenerateSpeechNeverRaises ==
    /\ pc \in Positions
    /\ \A i \in 1..Len(log) : \A e \in Exceptions :
            log[i] = "raise " \o e =>
                /\ i = Len(log)
                /\ pc = "done"
                /\ result[1] = FALSE
                /\ result[2] \in {"Request error: " \o e, "Unexpected error: " \o e}
    /\ (pc # "idle" /\ audio_prompt # "" /\ audio_prompt \notin DOMAIN fs) =>
            (pc = "done" /\ result[1] = FALSE)
    /\ pc = "done" =>
            /\ Len(result) = 2
            /\ result[1] \in BOOLEAN
            /\ result[1] => result[2] \in Seq(ByteVals)
            /\ ~result[1] => result[2] \in STRING

C12_Witness ==
    /\ pc = "done" /\ client = "tts"
    /\ StatusIs("COMPLETED") /\ AudioDecodes
    /\ save_path = OutFile
    /\ log[Len(log)] = "raise OSError"
    /\ result[1] = FALSE /\ result[2] = "Unexpected error: OSError"

(* generate_speech(args) of the inference CLI calls the client with
   save_path = args.output (always given) and a text that is not empty (main
   prints the help otherwise) *)
CliRun == save_path = OutFile /\ text # ""

(* An exit status that is 0 whenever the client call returned *)
ExitStatus_Unchecked == IF Len(result) = 2 THEN 0 ELSE 1

(* `return 0` on success, `return 1` on failure *)
ExitStatus == IF result[1] THEN 0 ELSE 1

(* C13, as stated: whenever a CLI run ends in failure the exit status is not
   zero and the output path holds nothing. *)
C13_FailureWritesNothing ==
    (CliRun /\ pc = "done" /\ ~result[1]) =>
        (ExitStatus # 0 /\ OutFile \notin DOMAIN fs)

(* C13, amended: every failure has a non-zero exit status; every failure
   other than a failing write of the output file itself leaves the output
   path without a file; and the output path holds something only after a
   COMPLETED response with decodable audio and no error field. On success the
   exit status is 0 and the file holds the returned bytes. *)
C13_FailureBeforeWriteWritesNothing ==
    CliRun =>
        /\ (pc = "done" /\ ~result[1]) => ExitStatus # 0
        /\ (pc = "done" /\ ~result[1] /\ "raise OSError" \notin Requests) =>
                OutFile \notin DOMAIN fs
        /\ OutFile \in DOMAIN fs =>
                (StatusIs("COMPLETED") /\ AudioDecodes /\ "error" \notin DOMAIN Output)
        /\ (pc = "done" /\ result[1]) =>
                (ExitStatus = 0 /\ OutFile \in DOMAIN fs /\ fs[OutFile] = result[2])

C13_Witness ==
    /\ CliRun /\ client = "stream"
    /\ TimedOut
    /\ ExitStatus = 1
    /\ Len(log) >= 2
    /\ OutFile \notin DOMAIN fs

(* C14: a construction whose effective endpoint id (argument, else
   ENDPOINT_ID) or effective API key (argument, else RUNPOD_API_KEY) is empty
   has raised ValueError and left no client object, and only then; a
   constructed client holds both values; every request sent names a
   non-empty endpoint id in its URL and a non-empty key in its
   Authorization header. *)
C14_MissingConfigFailsConstruction ==
    /\ ctor # "new" =>
         LET eid == IF init_args.endpoint_id # "" THEN init_args.endpoint_id ELSE ENDPOINT_ID
             key == IF init_args.api_key # "" THEN init_args.api_key ELSE RUNPOD_API_KEY
         IN  /\ (eid = "" \/ key = "") <=> ctor # "constructed"
             /\ ctor # "constructed" => (self = <<>> /\ sent = {})
             /\ ctor = "constructed" =>
                    (self.endpoint_id = eid /\ self.api_key = key /\ eid # "" /\ key # "")
    /\ ctor = "new" => sent = {}
    /\ \A r \in sent :
            /\ r.url \in {"https://api.runpod.ai/v2/" \o e \o "/run" : e \in EndpointIds}
            /\ r.Authorization \in {"Bearer " \o k : k \in ApiKeys}

C14_Witness ==
    /\ ENDPOINT_ID = "ep1" /\ RUNPOD_API_KEY = ""
    /\ init_args = [class |-> "DiaStreamingClient", endpoint_id |-> "ep2", api_key |-> ""]
    /\ ctor = "ValueError: API key is required. Provide it as argument or set RUNPOD_API_KEY env var."
    /\ self = <<>> /\ sent = {}

----------------------------------------------------------------------------
(* Properties of the serverless handler *)

InputCommand == IF "command" \in DOMAIN input_data THEN input_data.command ELSE ""
InputText == IF "text" \in DOMAIN input_data THEN input_data.text ELSE ""
InputForce == "force_refresh" \in DOMAIN input_data /\ input_data.force_refresh = TRUE
TraceHas(e) == \E i \in 1..Len(trace) : trace[i] = e
GenerationSteps == {"manual_seed", "manual_seed raises", "generate", "generate raises",
                    "sf.write", "sf.write raises"}
Generated == generate_calls # <<>> \/ \E e \in GenerationSteps : TraceHas(e)
Finished == hpc \in {"returned", "raised"}
NormalPath == hpc # "idle" /\ InputCommand \notin Commands

(* C15, as stated: an invocation with one of the three commands ends by
   returning a result with a status, model.generate is not called, and
   set_cache_dir and debug_volumes leave the global model as it was. *)
C15_CommandsReturnStatus ==
    (InputCommand \in Commands /\ Finished) =>
        /\ hpc = "returned"
        /\ "status" \in DOMAIN h_result
        /\ ~Generated
        /\ InputCommand \in {"set_cache_dir", "debug_volumes"} => model = model_before

(* C15, amended: with one of the three commands, whatever the text,
   model.generate is never called and the handler never reaches the normal
   path; set_cache_dir and debug_volumes leave the global model as it was;
   when the handler returns, the result carries a status and neither audio
   nor a generation error; it raises instead only when the forced load of
   refresh_model fails (the model is then None) or the whoami subprocess of
   debug_volumes fails. *)
C15_CommandsNeverGenerate ==
    (InputCommand \in Commands /\ hpc # "idle") =>
        /\ hpc \in {"command", "returned", "raised"}
        /\ ~Generated
        /\ InputCommand \in {"set_cache_dir", "debug_volumes"} =>
                (model = model_before /\ ~TraceHas("from_pretrained")
                 /\ ~TraceHas("del model"))
        /\ hpc = "returned" =>
                /\ "status" \in DOMAIN h_result
                /\ h_result.status \in {"success", "error"}
                /\ "audio" \notin DOMAIN h_result /\ "error" \notin DOMAIN h_result
                /\ InputCommand = "refresh_model" =>
                        (model = loads /\ model > model_before
                         /\ trace[Len(trace)] = "from_pretrained")
        /\ hpc = "raised" =>
                \/ /\ InputCommand = "refresh_model"
                   /\ trace[Len(trace)] = "from_pretrained raises"
                   /\ model = 0
                \/ /\ InputCommand = "debug_volumes"
                   /\ trace = <<"whoami raises">>

C15_Witness ==
    /\ InputCommand = "refresh_model"
    /\ "text" \in DOMAIN input_data /\ input_data.text = "[S1] Hello."
    /\ hpc = "returned"
    /\ "status" \in DOMAIN h_result /\ h_result.status = "success"
    /\ model_before = 1 /\ model = 2
    /\ generate_calls = <<>>

(* C16, as stated: on the normal path an invocation whose text is missing
   or empty ends by returning {"error": "No text provided for speech
   generation."}, without a model.generate call. *)
C16_NoTextReturnsError ==
    (NormalPath /\ InputText = "" /\ Finished) =>
        /\ hpc = "returned"
        /\ DOMAIN h_result = {"error"}
        /\ h_result.error = "No text provided for speech generation."
        /\ ~Generated

(* C16, amended: on the normal path with a missing or empty text
   model.generate is never called and the invocation ends at the text check
   or before it: it returns the "No text provided" error whenever the model
   is cached or its load succeeds, and raises exactly when the container
   held no model and the load failed, which comes before the text check. *)
C16_NoTextNeverGenerates ==
    (NormalPath /\ InputText = "") =>
        /\ hpc \in {"command", "returned", "raised"}
        /\ ~Generated
        /\ hpc = "returned" =>
                /\ DOMAIN h_result = {"error"}
                /\ h_result.error = "No text provided for speech generation."
                /\ model # 0
        /\ hpc = "raised" =>
                (model_before = 0 /\ trace = <<"from_pretrained raises">> /\ model = 0)
        /\ (Finished /\ model_before # 0) => hpc = "returned"

C16_Witness ==
    /\ hpc = "returned"
    /\ InputCommand = ""
    /\ "text" \in DOMAIN input_data /\ input_data.text = ""
    /\ "audio_prompt" \in DOMAIN input_data
    /\ trace = <<"from_pretrained">>
    /\ DOMAIN h_result = {"error"}
    /\ h_result.error = "No text provided for speech generation."
    /\ generate_calls = <<>>

(* The generation block ended with an exception *)
GenerationFailed ==
    Len(trace) > 0
    /\ trace[Len(trace)] \in {"manual_seed raises", "generate raises", "sf.write raises"}

(* C17: an exception raised by the seeding, by model.generate or by the
   WAV encoding is returned as {"error": "Error generating speech: ..."}:
   the invocation has returned, not raised. The generation step never
   changes the global model and always ends in a return. *)
C17_GenerationExceptionsReturned ==
    /\ [](GenerationFailed =>
            /\ hpc = "returned"
            /\ DOMAIN h_result = {"error"}
            /\ h_result.error \in {"Error generating speech: " \o e : e \in GenerationErrors}
            /\ model # 0)
    /\ [][hpc = "generate" => (model' = model /\ loads' = loads /\ hpc' = "returned")]_vars

C17_Witness ==
    /\ hpc = "returned"
    /\ trace = <<"manual_seed", "generate", "sf.write raises">>
    /\ Len(generate_calls) = 1
    /\ DOMAIN h_result = {"error"}
    /\ h_result.error = "Error generating speech: Error opening buffer"
    /\ model_before = 1 /\ model = 1

(* C18: in an invocation with force_refresh true and a text, generation is
   reached only after a load that succeeded in this very invocation, after
   the cached model (if any) was dropped; every model.generate call runs on
   that instance, the newest one, never on the one cached at the start. *)
C18_ForceRefreshGeneratesOnFreshModel ==
    (NormalPath /\ InputForce /\ InputText # "" /\ (hpc = "generate" \/ Generated)) =>
        /\ model = loads /\ model > model_before
        /\ \E j \in 1..Len(trace) :
              /\ trace[j] = "from_pretrained"
              /\ \A k \in 1..Len(trace) :
                    /\ trace[k] \in GenerationSteps => k > j
                    /\ trace[k] \in {"del model", "from_pretrained raises"} => k < j
              /\ model_before # 0 => (j > 1 /\ trace[j - 1] = "del model")
        /\ \A i \in 1..Len(generate_calls) :
              /\ generate_calls[i].model = model
              /\ generate_calls[i].model # model_before

C18_Witness ==
    /\ hpc = "returned"
    /\ InputForce /\ InputText = "[S1] Hello."
    /\ model_before = 1 /\ model = 2
    /\ trace = <<"del model", "from_pretrained", "generate", "sf.write">>
    /\ Len(generate_calls) = 1 /\ generate_calls[1].model = 2
    /\ "audio" \in DOMAIN h_result

(* C19: as long as no invocation carried force_refresh or refresh_model,
   at most one instance was ever loaded; an invocation that finds a model
   loads nothing and every model.generate call runs on that one instance;
   and once set the global model does not change. *)
C19_ModelLoadedAtMostOnce ==
    /\ [](~refresh_requested =>
            /\ loads <= 1 /\ model \in {0, loads}
            /\ model_before # 0 =>
                    (model = model_before /\ ~TraceHas("from_pretrained")
                     /\ ~TraceHas("from_pretrained raises") /\ ~TraceHas("del model"))
            /\ \A i \in 1..Len(generate_calls) : generate_calls[i].model = 1)
    /\ [][(~refresh_requested' /\ model # 0) => model' = model]_vars

C19_Witness ==
    /\ ~refresh_requested
    /\ invocations = 3
    /\ hpc = "returned"
    /\ model_before = 1 /\ model = 1 /\ loads = 1
    /\ trace = <<"generate", "sf.write">>
    /\ Len(generate_calls) = 1 /\ generate_calls[1].model = 1

(* C20: for every byte string b read from the reference audio file and
   sent as input.audio_prompt = base64(b), the audio_prompt passed to
   model.generate is b. (It is for every b that is not empty; the encoding
   of an empty file is the empty string, which `if audio_prompt_b64:` takes
   for no audio prompt, so model.generate gets None.) *)
C20_AudioPromptRoundTrip ==
    \A b \in PromptBytes :
        ("audio_prompt" \in DOMAIN input_data /\ input_data.audio_prompt = b64encode(b)) =>
            \A i \in 1..Len(generate_calls) : generate_calls[i].audio_prompt = {b}

(* The calls of this invocation that reached Dia.from_pretrained *)
LoadSteps == {"from_pretrained", "from_pretrained raises"}
LoadAttempts == Cardinality({i \in 1..Len(trace) : trace[i] \in LoadSteps})

(* C23: in any single invocation the loader reaches Dia.from_pretrained at
   most once, whether the container is cold or warm and whether force_refresh
   is set. (It does not hold: on a cold container `if model is None` loads,
   and with force_refresh the same invocation loads again at line 549.) *)
C23_LoaderRunsAtMostOnce == LoadAttempts <= 1

(* The values set_cache_dir gives the three variables for cache_dir d *)
CacheEnv(d) ==
    [HF_HOME |-> d \o "/hf_cache",
     TRANSFORMERS_CACHE |-> d \o "/hf_cache",
     TORCH_HOME |-> d \o "/torch_cache"]

(* The directories the set_cache_dir inputs of the model name *)
CacheDirs == {inp.cache_dir : inp \in {i \in CommandInputs : "cache_dir" \in DOMAIN i}} \ {""}

(* C24: HF_HOME and TRANSFORMERS_CACHE always name the same directory, and
   when the environment is the one a successful set_cache_dir installed, a
   step that reaches Dia.from_pretrained leaves HF_HOME at
   <cache_dir>/hf_cache, so that the load runs with it. (Neither holds: a
   forced load sets HF_HOME alone to the temporary directory, and with a
   network volume every load points the variables back into the volume.) *)
C24_CacheDirsConsistent ==
    /\ [](environ.HF_HOME = environ.TRANSFORMERS_CACHE)
    /\ [][\A d \in CacheDirs :
            (environ = CacheEnv(d) /\ LoadAttempts' > LoadAttempts) =>
                environ'.HF_HOME = d \o "/hf_cache"]_vars

(* The last load of this invocation raised *)
LastLoadRaised ==
    \E i \in 1..Len(trace) :
        /\ trace[i] = "from_pretrained raises"
        /\ \A k \in (i + 1)..Len(trace) : trace[k] \notin LoadSteps

(* C25: the global model is None or the newest instance Dia.from_pretrained
   returned; it changes only in a step that reaches Dia.from_pretrained;
   after a load that raised, the forced reload of a cached model included,
   it is None and the exception has left the handler; and a normal
   invocation that finds it None attempts a load before anything else. *)
C25_ModelNoneOrLoaded ==
    /\ [](/\ model \in {0, loads}
          /\ LastLoadRaised => (model = 0 /\ hpc = "raised"))
    /\ [][/\ model' # model => LoadAttempts' > LoadAttempts
          /\ (hpc = "command" /\ InputCommand \notin Commands /\ model = 0) =>
                (LoadAttempts' = 1 /\ trace'[1] \in LoadSteps)]_vars

C25_Witness ==
    /\ hpc = "raised"
    /\ model_before = 1 /\ model = 0 /\ loads = 1
    /\ trace = <<"del model", "from_pretrained raises">>
    /\ InputForce /\ InputText # ""

(* C30: a set_cache_dir invocation returns in one step; when it returns
   status "error" HF_HOME, TRANSFORMERS_CACHE and TORCH_HOME are what they
   were, and when it changes any of them it returns status "success" and has
   set all three to the directories under the cache_dir of the input. *)
C30_SetCacheDirErrorKeepsEnv ==
    [][(hpc = "command" /\ InputCommand = "set_cache_dir") =>
          /\ hpc' = "returned"
          /\ h_result'.status \in {"error", "success"}
          /\ h_result'.status = "error" => environ' = environ
          /\ environ' # environ =>
                /\ h_result'.status = "success"
                /\ "cache_dir" \in DOMAIN input_data
                /\ environ' = CacheEnv(input_data.cache_dir)]_vars

C30_Witness ==
    /\ hpc = "returned"
    /\ InputCommand = "set_cache_dir"
    /\ "cache_dir" \in DOMAIN input_data /\ input_data.cache_dir = "/cache"
    /\ h_result.status = "error"
    /\ h_result.message = "Failed to set up cache directories: PermissionError"
    /\ environ = CacheEnv("/runpod-volume")

----------------------------------------------------------------------------
(* Further properties of the job submission / poll client *)

(* The last entry of the log is an exception the method caught *)
Raised == log # <<>> /\ log[Len(log)] \in {"raise " \o e : e \in Exceptions}

(* C26: a status response whose status is none of COMPLETED, FAILED and
   CANCELLED (QUEUED, IN_QUEUE, IN_PROGRESS, no status at all) does not end
   the call: the client goes to time.sleep, which takes polling_interval and
   sends nothing, then to the head of the loop, and unless the deadline has
   passed it sends the next status request. A call that has returned while
   the last response was of that kind, and whose requests were all answered,
   returned the timeout failure. *)
C26_NonTerminalStatusPollsAgain ==
    /\ [][(pc = "get" /\ log' = Append(log, "GET /status/" \o job_id) /\ ~Terminal') =>
            (pc' = "sleep" /\ result' = result /\ stop_event' = stop_event)]_vars
    /\ [][(pc = "sleep" /\ pc' # pc) =>
            (pc' = "check" /\ now' = now + polling_interval /\ log' = log)]_vars
    /\ [][(pc = "check" /\ pc' # pc /\ ~(now - start_time > timeout)) => pc' = "get"]_vars
    /\ [][(pc = "get" /\ pc' # pc) =>
            (Len(log') > Len(log) /\ log'[Len(log) + 1] = "GET /status/" \o job_id)]_vars
    /\ []((pc = "done" /\ job_id # "" /\ ~Terminal /\ ~Raised) => TimedOut)

C26_Witness ==
    /\ TimedOut
    /\ status_data = [status |-> "QUEUED"]
    /\ NumStatusRequests >= 2
    /\ ~Raised

----------------------------------------------------------------------------
(* Properties of the streaming client's player thread *)

(* Player threads that have been started and have not ended *)
AliveThreads == stale.loop + stale.got + (IF player \in {"loop", "got"} THEN 1 ELSE 0)

(* C21: a player thread, of this call or of an earlier one, ends only in a
   step taken with the stop flag set and the queue empty, from the head of
   its loop; when stream_speech has returned success every queued chunk has
   been taken and marked done and the thread the call started has ended; and
   with the threads scheduled fairly the wait at audio_queue.join() and
   audio_thread.join() always ends with the return of the call. *)
C21_PlayerDrainsThenStops ==
    /\ [][(\/ (player' = "exited" /\ player # "exited")
           \/ (pc' = pc /\ stale'.loop + stale'.got < stale.loop + stale.got)) =>
              (stop_event /\ audio_queue = 0 /\ audio_queue' = 0
               /\ unfinished_tasks' = unfinished_tasks
               /\ (player' # player => player = "loop"))]_vars
    /\ []((pc = "done" /\ result[1] = TRUE) =>
              (audio_queue = 0 /\ unfinished_tasks = 0 /\ player = "exited" /\ stop_event))
    /\ (pc \in {"queue_join", "thread_join"}) ~> (pc = "done")

C21_Witness ==
    /\ pc = "done" /\ result[1] = TRUE
    /\ player = "exited" /\ stop_event
    /\ audio_queue = 0 /\ unfinished_tasks = 0
    /\ status_data = [status |-> "COMPLETED", output |-> [audio |-> b64encode(<<255>>)]]
    /\ complete_audio = <<255>>
    /\ stale = [loop |-> 0, got |-> 0]

(* C22: at any time at most one player thread is alive, and a thread of an
   earlier call that has not ended has its stop flag set, so that it ends
   without taking part in the current call. (Neither holds: a call that
   returns through the timeout, a failure or an exception sets the flag
   without joining the thread, and the next call clears the flag; a thread
   that had not read the flag by then runs on beside the new one and takes
   chunks from the new queue.) *)
C22_AtMostOnePlayerThread ==
    /\ AliveThreads <= 1
    /\ (stale.loop + stale.got > 0) => stop_event

----------------------------------------------------------------------------
(* The inference CLI (inference/inference.py): main, check_status,
   admin_refresh_model and generate_speech. ENDPOINT_ID and RUNPOD_API_KEY
   are the module-level values of config.api_config, "" when the
   environment does not set them. *)

(* What the provider makes of a submitted refresh job: COMPLETED with
   output.status "success", COMPLETED with another output, FAILED,
   CANCELLED, or no terminal status within the 60 seconds *)
JobOutcomes == {"success", "other output", "FAILED", "CANCELLED", "pending"}

Argvs ==
    [endpoint_id : EndpointIds \cup {""}, api_key : ApiKeys \cup {""},
     status : BOOLEAN, admin_refresh : BOOLEAN, text : Texts]

(* validate_api_config(): the message of the first value that is not set,
   "" when both are *)
validate_api_config ==
    IF RUNPOD_API_KEY = ""
    THEN "RunPod API key is not set. Set the RUNPOD_API_KEY environment variable."
    ELSE IF ENDPOINT_ID = ""
    THEN "Endpoint ID is not set. Set the ENDPOINT_ID environment variable."
    ELSE ""

Exit(n, msg) == cli' = "exited" /\ exit_status' = {n} /\ stdout' = msg

CliInit ==
    /\ ClientIdle
    /\ HandlerIdle
    /\ EnvIdle
    /\ ENDPOINT_ID \in EndpointIds \cup {""}
    /\ RUNPOD_API_KEY \in ApiKeys \cup {""}
    /\ init_args = <<>> /\ ctor = "new" /\ self = <<>> /\ sent = {}
    /\ argv \in Argvs
    /\ cli = "main"
    /\ exit_status = {} /\ stdout = "" /\ job = <<>>

(* main(), lines 104-154: the configuration check comes before any use of
   the arguments; then --status, --admin-refresh, the help when there is no
   text, and the speech generation, in that order *)
Main ==
    /\ cli = "main"
    /\ IF validate_api_config # ""
       THEN Exit(1, "Error: " \o validate_api_config)
       ELSE IF argv.status
       THEN cli' = "check_status" /\ UNCHANGED <<exit_status, stdout>>
       ELSE IF argv.admin_refresh
       THEN cli' = "admin_refresh" /\ UNCHANGED <<exit_status, stdout>>
       ELSE IF argv.text = ""
       THEN Exit(0, "usage")
       ELSE cli' = "generate_speech" /\ UNCHANGED <<exit_status, stdout>>
    /\ UNCHANGED <<argv, job>>
    /\ UNCHANGED <<clientVars, configVars, handlerVars, envVars>>

(* check_status(args), lines 156-260: the two GETs of the management API
   either raise a request exception or the status is printed *)
CheckStatus ==
    /\ cli = "check_status"
    /\ IF Or(argv.endpoint_id, ENDPOINT_ID) = ""
       THEN Exit(1, "Error: No endpoint ID provided")
       ELSE \/ Exit(1, "Error checking status: ConnectionError")
            \/ Exit(0, "Endpoint Status:")
    /\ UNCHANGED <<argv, job>>
    /\ UNCHANGED <<clientVars, configVars, handlerVars, envVars>>

(* admin_refresh_model(args), lines 30-102. After the job id has arrived
   the function reads time.time() (line 73), and the module imports no
   `time` (lines 5-14): NameError is raised, the `except
   requests.exceptions.RequestException` does not catch it, and it leaves
   main() with a traceback, which ends the process with status 1. The poll
   loop below line 73 is never entered. *)
AdminRefresh ==
    /\ cli = "admin_refresh"
    /\ IF Or(argv.endpoint_id, ENDPOINT_ID) = ""
       THEN Exit(1, "Error: No endpoint ID provided") /\ UNCHANGED job
       ELSE \/ Exit(1, "Request error: ConnectionError") /\ UNCHANGED job
            \/ \E r \in SubmitResponses :
                IF ~HasJobId(r)
                THEN /\ Exit(1, "Failed to submit refresh command: " \o Repr(r))
                     /\ UNCHANGED job
                ELSE /\ \E o \in JobOutcomes : job' = [id |-> r.id, outcome |-> o]
                     /\ cli' = "raised"
                     /\ exit_status' = {1}
                     /\ stdout' = "NameError: name 'time' is not defined"
    /\ UNCHANGED argv
    /\ UNCHANGED <<clientVars, configVars, handlerVars, envVars>>

(* generate_speech(args), lines 262-317: the client is constructed from the
   two flags (a ValueError is caught and printed), the call is made, and
   the exit status follows its success *)
GenerateSpeech ==
    /\ cli = "generate_speech"
    /\ LET err == ConfigError(Or(argv.endpoint_id, ENDPOINT_ID), Or(argv.api_key, RUNPOD_API_KEY))
       IN  IF err # {}
           THEN \E e \in err : Exit(1, "Error: " \o e)
           ELSE \/ Exit(0, "Speech generation completed successfully")
                \/ Exit(1, "Speech generation failed")
    /\ UNCHANGED <<argv, job>>
    /\ UNCHANGED <<clientVars, configVars, handlerVars, envVars>>

CliNext == Main \/ CheckStatus \/ AdminRefresh \/ GenerateSpeech

CliSpec == CliInit /\ [][CliNext]_vars

(* main() has ended at its configuration check *)
ConfigRejected ==
    /\ cli = "exited"
    /\ stdout \in {"Error: RunPod API key is not set. Set the RUNPOD_API_KEY environment variable.",
                   "Error: Endpoint ID is not set. Set the ENDPOINT_ID environment variable."}

(* The run is an --admin-refresh run that got to admin_refresh_model and ended *)
AdminRefreshEnded ==
    /\ cli \in {"exited", "raised"}
    /\ argv.admin_refresh /\ ~argv.status
    /\ ~ConfigRejected

(* C27: an --admin-refresh run ends with exit status 0 when its job reaches
   COMPLETED with output.status "success", and with exit status 1 in every
   other case: another output, FAILED or CANCELLED, no job id, a request
   error, no terminal status after 60 seconds; and it ends by returning
   from main. (It does not hold: once the job is submitted the run ends
   with NameError and status 1, whatever becomes of the job.) *)
C27_AdminRefreshExitStatus ==
    AdminRefreshEnded =>
        /\ cli = "exited"
        /\ exit_status = {IF job # <<>> /\ job.outcome = "success" THEN 0 ELSE 1}

(* C28: a run with both --endpoint-id and --api-key given gets past the
   configuration check to the action it asked for, whether or not the
   environment sets RUNPOD_API_KEY and ENDPOINT_ID. (It does not hold:
   validate_api_config looks at the environment values alone and main
   returns 1 before the flags are used.) *)
C28_FlagsOverrideEnvironment ==
    (cli \notin {"none", "main"} /\ argv.endpoint_id # "" /\ argv.api_key # "") =>
        ~ConfigRejected

----------------------------------------------------------------------------
(* The .env file that the management CLI (main.py) rewrites after a deploy
   and after a delete. The text of the file is a sequence of tokens, each a
   piece of text that no search of the code can split: the key with its
   equals sign, a comment mark, a value, another setting, the line feed. *)

MaxEnv == 4          \* longest .env text, in tokens

Key == "ENDPOINT_ID="
NL == "\n"
EnvTokens == {Key, "# ", "old", "RUNPOD_API_KEY=key1", NL}
EnvTexts == SeqsUpTo(EnvTokens, MaxEnv)

(* str.splitlines() *)
RECURSIVE SplitLines(_)
SplitLines(s) ==
    IF s = <<>> THEN <<>>
    ELSE IF \A i \in 1..Len(s) : s[i] # NL THEN <<s>>
    ELSE LET i == CHOOSE k \in 1..Len(s) : s[k] = NL /\ \A j \in 1..(k - 1) : s[j] # NL
         IN  <<SubSeq(s, 1, i - 1)>> \o SplitLines(SubSeq(s, i + 1, Len(s)))

(* '\n'.join(lines) *)
RECURSIVE Join(_)
Join(lines) ==
    IF lines = <<>> THEN <<>>
    ELSE IF Len(lines) = 1 THEN lines[1]
    ELSE lines[1] \o <<NL>> \o Join(Tail(lines))

(* 'ENDPOINT_ID=' in env_content *)
Contains(s) == \E i \in 1..Len(s) : s[i] = Key

(* line.startswith('ENDPOINT_ID=') *)
StartsWith(line) == line # <<>> /\ line[1] = Key

(* Lines 189-203 of main.py (291-305 of create_endpoint.py): replace or add
   ENDPOINT_ID *)
SaveEndpointId(env_content, id) ==
    IF Contains(env_content)
    THEN LET lines == SplitLines(env_content)
         IN  Join([i \in 1..Len(lines) |->
                      IF ~StartsWith(lines[i]) THEN lines[i] ELSE <<Key, id>>])
    ELSE env_content \o <<NL, Key, id, NL>>

(* Lines 354-365 of main.py: remove ENDPOINT_ID *)
NotKeyLine(line) == ~StartsWith(line)
RemoveEndpointId(env_content) == Join(SelectSeq(SplitLines(env_content), NotKeyLine))

EnvInit ==
    /\ ClientIdle
    /\ ConfigIdle
    /\ HandlerIdle
    /\ CliIdle
    /\ env_file \in {{}} \cup {{t} : t \in EnvTexts}
    /\ env_before = env_file
    /\ env_op = <<>>

(* deploy_endpoint(args), main.py lines 142-210: without a template id, or
   when create_endpoint returns nothing, the command returns 1; otherwise
   the id of the new endpoint is saved to .env, if that file exists *)
DeployEndpoint ==
    /\ env_before' = env_file
    /\ \/ /\ env_op' = [op |-> "deploy", id |-> "", ok |-> FALSE, status |-> 1]
          /\ UNCHANGED env_file
       \/ \E id \in EndpointIds :
            /\ env_op' = [op |-> "deploy", id |-> id, ok |-> TRUE, status |-> 0]
            /\ env_file' = {SaveEndpointId(t, id) : t \in env_file}
    /\ UNCHANGED <<clientVars, configVars, handlerVars, cliVars>>

(* delete_endpoint(args), main.py lines 319-372: the deletion can be
   declined at the prompt (status 0, nothing done) or fail (status 1); after
   a deletion the ENDPOINT_ID lines are taken out of .env, if that file
   exists *)
DeleteEndpoint ==
    /\ env_before' = env_file
    /\ \E id \in EndpointIds :
        \/ /\ env_op' = [op |-> "delete", id |-> id, ok |-> FALSE, status |-> 0]
           /\ UNCHANGED env_file
        \/ /\ env_op' = [op |-> "delete", id |-> id, ok |-> FALSE, status |-> 1]
           /\ UNCHANGED env_file
        \/ /\ env_op' = [op |-> "delete", id |-> id, ok |-> TRUE, status |-> 0]
           /\ env_file' = {RemoveEndpointId(t) : t \in env_file}
    /\ UNCHANGED <<clientVars, configVars, handlerVars, cliVars>>

EnvNext == DeployEndpoint \/ DeleteEndpoint

EnvSpec == EnvInit /\ [][EnvNext]_vars

(* The lines of a text that are neither an ENDPOINT_ID line nor empty *)
KeptLine(line) == ~StartsWith(line) /\ line # <<>>
OtherLines(t) == SelectSeq(SplitLines(t), KeptLine)

(* C29: after a deploy that created an endpoint, with a .env file there
   before, the file has a line ENDPOINT_ID=<new id>, every line that starts
   with ENDPOINT_ID= is that line, and the other lines (blank ones aside)
   are the ones it had, in their order; after a delete that deleted the
   endpoint no line of the file starts with ENDPOINT_ID=. (The first does
   not hold for every prior content: when the text has ENDPOINT_ID= only
   inside a line, as in a comment, the substring test of line 194 finds it,
   no line is replaced and none is added.) *)
C29_EnvFileTracksEndpoint ==
    (env_op # <<>> /\ env_op.ok /\ env_before # {}) =>
        \E old \in env_before, new \in env_file :
            LET lines == SplitLines(new) IN
            IF env_op.op = "deploy"
            THEN /\ \E i \in 1..Len(lines) : lines[i] = <<Key, env_op.id>>
                 /\ \A i \in 1..Len(lines) : StartsWith(lines[i]) => lines[i] = <<Key, env_op.id>>
                 /\ OtherLines(new) = OtherLines(old)
            ELSE /\ \A i \in 1..Len(lines) : ~StartsWith(lines[i])
                 /\ OtherLines(new) = OtherLines(old)

====
